---------------------------- MODULE Spec2Model ----------------------------
(***************************************************************************)
(* Model of the map rendering cache of roaringbot: the in-memory LRU tier  *)
(* (core/cache_manager.py), the disk tier with shared and per-guild        *)
(* directories (core/map_storage.py) and the handlers of the map cog that  *)
(* render, invalidate and change settings (cogs/map.py,                    *)
(* core/map_views_admin.py, core/map_views.py).                            *)
(*                                                                         *)
(* A handler runs without interruption between two awaits that really      *)
(* suspend (Discord I/O, the renderer's progress updates); an action is     *)
(* one such stretch.  The cache calls themselves never suspend.            *)
(*                                                                         *)
(* Left out: the await between the pin change and the invalidation in      *)
(* _handle_pin_location (the update modal's handler, which has none, is    *)
(* modelled), the state outline drawn on a close-up, the unlinking of file *)
(* paths held as LRU values (the map cache stores images only), and the    *)
(* empty maps entry _apply_cached_preview_as_map creates when it posts a   *)
(* new message for a deleted map.  File operations succeed under Spec;     *)
(* SpecFaults lets cache writes fail and cached files be damaged.          *)
(***************************************************************************)
EXTENDS Integers, Sequences, FiniteSets, TLC

VARIABLES
    memory_cache,   \* LRUCache.cache: OrderedDict, oldest entry first
    clock,          \* time.time() as seen by the LRU operations
    lastOp,         \* history: the last LRUCache call [op, key]
    evicted,        \* history: the entries the last LRUCache.set evicted
    maps,           \* MapV2Cog.maps: guild -> map data (or NoMap)
    disk,           \* the *.png files of the shared and the guild directories
    jobs,           \* render requests suspended at an await (in flight)
    views,          \* ColorSettingsPreviewView waiting for its Apply button
    applying,       \* ColorSettingsPreviewView._apply_settings suspended
    cont,           \* the rest of the handler that runs without suspension
    requests,       \* number of handler invocations so far
    call,           \* the last call of a pure function: its inputs and results
    handler,        \* a MapProgressHandler: its fields, the loop time and its last call
    sched,          \* LRUCache._lock, the tasks inside LRUCache calls, the calls in lock order
    cleaner         \* CacheManager._cleanup_task and the directory it cleans

vars == <<memory_cache, clock, lastOp, evicted, maps, disk, jobs, views, applying, cont, requests,
          call, handler, sched, cleaner>>

lruVars == <<memory_cache, clock, lastOp, evicted>>
storeVars == <<maps, disk, jobs, views, applying, cont, requests>>
auxVars == <<call, handler, sched, cleaner>>
cogVars == <<storeVars, auxVars>>

(***************************************************************************)
(* Bounds of the model.                                                    *)
(***************************************************************************)
max_items == 2      \* LRUCache.max_items (MAX_MEMORY_CACHE_ITEMS), kept small
MaxClock == 6       \* number of LRUCache calls explored by SpecLRU
MaxJobs == 1        \* render requests in flight at the same time
MaxRequests == 5    \* handler invocations (commands, buttons, events) explored by Spec
max_size_bytes == 5 \* ManagedFileCache.max_size_bytes (MAX_CACHE_SIZE_MB), kept small
MaxFiles == 3       \* files in the managed directory when cleanup_if_needed runs
MaxFileSize == 3    \* largest size of one such file
MaxAtime == 3       \* latest access time of one such file
ArtifactSize == 2   \* size of one rendered PNG, in the unit of max_size_bytes
MaxTime == 6        \* latest loop time explored, in quarters of a second
MaxUpdates == 4     \* calls of MapProgressHandler.update_progress explored
MaxCalls == 3       \* LRUCache calls made by the concurrent tasks of SpecLock
MaxPasses == 2      \* rounds of _periodic_cleanup explored by SpecCleaner
MaxTaskCalls == 6   \* calls of start_cleanup_task and stop_cleanup_task
MaxPins == 3        \* pins handed to group_overlapping_pins
MaxCoord == 4       \* largest projected x coordinate of a pin, in pixels
MaxRaw == 40        \* largest magnitude of a stored pins.size number

LruKeys == {"k1", "k2", "k3", "k4"}
LruValues == {"v1", "v2"}

NoOp == [op |-> "none", key |-> "none"]

(***************************************************************************)
(* LRUCache (core/cache_manager.py).  The OrderedDict is a sequence of     *)
(* entries, first = least recently used.  atime is the time.time() stored  *)
(* with the value; itime records when the key was inserted and via which   *)
(* call touched the entry last.                                            *)
(***************************************************************************)
CacheKeys(c) == {c[i].key : i \in 1..Len(c)}

IndexOf(c, k) == CHOOSE i \in 1..Len(c) : c[i].key = k

Without(c, k) == SelectSeq(c, LAMBDA e : e.key # k)

\* OrderedDict.move_to_end(key) followed by / preceded by the assignment
MoveToEnd(c, k, e) == Append(Without(c, k), e)

\* the value get returns: None when the key is absent
NoValue == "None"

LRUCache_lookup(c, k) == IF k \in CacheKeys(c) THEN c[IndexOf(c, k)].value ELSE NoValue

\* a get that updates the access time and leaves the entry where it is
LRUCache_get_NoMove(c, k, t) ==
    [i \in 1..Len(c) |-> IF c[i].key = k THEN [c[i] EXCEPT !.atime = t, !.via = "get"] ELSE c[i]]

LRUCache_get(c, k, t) ==
    IF k \in CacheKeys(c)
    THEN LET e == c[IndexOf(c, k)]
         IN MoveToEnd(c, k, [e EXCEPT !.atime = t, !.via = "get"])
    ELSE c

\* an eviction loop that tolerates one entry too many
EvictWhileOver_OffByOne(c, n) == IF Len(c) > n + 1 THEN Tail(c) ELSE c

RECURSIVE EvictWhileOver(_, _)
EvictWhileOver(c, n) ==
    IF Len(c) > n /\ Len(c) > 0 THEN EvictWhileOver(Tail(c), n) ELSE c

LRUCache_set(c, k, v, t) ==
    IF k \in CacheKeys(c)
    THEN LET e == c[IndexOf(c, k)]
         IN MoveToEnd(c, k, [e EXCEPT !.value = v, !.atime = t, !.via = "set"])
    ELSE EvictWhileOver(Append(c, [key |-> k, value |-> v, atime |-> t, itime |-> t,
                                   via |-> "set"]), max_items)

LRUCache_remove(c, k) == Without(c, k)

LRUCache_clear(c) == << >>

\* entries of c that are no longer in d
Dropped(c, d) == {c[i] : i \in {j \in 1..Len(c) : c[j].key \notin CacheKeys(d)}}

(***************************************************************************)
(* The data of the map cog.                                                *)
(***************************************************************************)
Guilds == {"g1", "g2"}
UserSeq == <<"u1">>
Users == {UserSeq[i] : i \in 1..Len(UserSeq)}
Positions == {"a", "b"}
NoPin == "nopin"
ColorChoices == {"c1", "c2"}    \* what ColorSettingsModal can store as colors + borders
PinChoices == {"p1"}            \* what PinSettingsModal can store as pins
NoSetting == "none"
StateName == "Bayern"
Shared == "shared"              \* MapStorage.cache_dir; a guild names data_dir / guild_id

NoPins == [u \in Users |-> NoPin]
NoSettings == [visual |-> NoSetting, pins |-> NoSetting]
NoMap == [exists |-> FALSE, pins |-> NoPins, settings |-> NoSettings]

\* maps.get(guild_id, {}).get('settings', {})
SettingsOf(M, g) == IF M[g].exists THEN M[g].settings ELSE NoSettings
\* maps.get(guild_id, {}).get('pins', {})
PinsOf(M, g) == IF M[g].exists THEN M[g].pins ELSE NoPins
\* bool(maps): the dict of all guilds is not empty
MapsTruthy(M) == \E g \in Guilds : M[g].exists

\* a raster: the palette it was rendered with and the pins drawn on it;
\* pre records that it was written before a later change of visual settings
Raster(p) == [palette |-> p, marks |-> {}, pre |-> FALSE]
\* what draw_pins_on_map leaves on a raster: a filled circle at each pin position
PinMarks(pins) == {pins[u] : u \in {w \in Users : pins[w] # NoPin}}

_has_custom_settings(g, M) == SettingsOf(M, g) # NoSettings

\* a location choice that ignores the owner's settings
_get_cache_location_AlwaysShared(g, M) == Shared

_get_cache_location(g, M) == IF _has_custom_settings(g, M) THEN g ELSE Shared

\* get_map_colors / get_border_colors: the palette a render draws with
get_map_colors(g, M) ==
    IF SettingsOf(M, g).visual = NoSetting THEN "default" ELSE SettingsOf(M, g).visual

(***************************************************************************)
(* Cache keys: "_".join(base_parts), kept as the sequence of its parts so  *)
(* that a glob such as closeup_*.png is a prefix test.  A digest is        *)
(* modelled by the data it is computed from.                               *)
(***************************************************************************)
\* The settings dict as the key functions read it: the values under
\* 'colors', 'borders' (its entries other than 'pin', and its entry 'pin')
\* and 'pins'; NoSetting stands for a missing key.
NoSettingsDict == [colors |-> NoSetting, borders |-> NoSetting, borderpin |-> NoSetting,
                   pins |-> NoSetting]

\* ColorSettingsModal stores colors and borders together, never borders['pin']
ToSettingsDict(s) ==
    [colors |-> s.visual, borders |-> s.visual, borderpin |-> NoSetting, pins |-> s.pins]

\* a base-map digest that does not see the colours
BaseMapSettingsDigest_NoColors(s) ==
    IF s = NoSettingsDict \/ s.borders = NoSetting
    THEN <<"default">>
    ELSE <<"md5", NoSetting, s.borders>>

\* a base-map digest that hashes all settings, pins included
BaseMapSettingsDigest_WithPins(s) ==
    IF s = NoSettingsDict THEN <<"default">>
    ELSE <<"md5", s.colors, s.borders, s.borderpin, s.pins>>

\* md5(json.dumps(base_map_settings, sort_keys=True))[:8] or "default": the
\* digest is the data it is computed from
BaseMapSettingsDigest(s) ==
    IF s = NoSettingsDict
    THEN <<"default">>
    ELSE IF s.colors = NoSetting /\ s.borders = NoSetting
         THEN <<"default">>
         ELSE <<"md5", s.colors, s.borders>>

SettingsDigest(s) ==
    IF s = NoSettingsDict THEN <<"default">>
    ELSE <<"md5", s.colors, s.borders, s.borderpin, s.pins>>

\* a pin digest that sees who has a pin but not where
PinDigest_NoPosition(pins) ==
    [i \in 1..Len(UserSeq) |-> IF pins[UserSeq[i]] = NoPin THEN NoPin ELSE "pinned"]

\* md5(json.dumps({uid: (lat, lng)}, sort_keys=True))[:8]
PinDigest(pins) == [i \in 1..Len(UserSeq) |-> pins[UserSeq[i]]]

BaseSettingsHash(g, M) == BaseMapSettingsDigest(ToSettingsDict(SettingsOf(M, g)))

generate_settings_hash(g, M) == SettingsDigest(ToSettingsDict(SettingsOf(M, g)))

PinHash(g, M) == PinDigest(PinsOf(M, g))

\* map_data.get('region', 'world'): create_map stores 'germany'
RegionOf(M, g) == IF M[g].exists THEN "germany" ELSE "world"

\* "_".join(["base_map", region, str(width), str(height), digest])
BaseMapKey(region, width, height, s) ==
    <<"base", "map", region, width, height>> \o BaseMapSettingsDigest(s)

\* "_".join(["final_map", region, pin_hash, settings_hash])
FinalMapKey(region, pins, s) ==
    <<"final", "map", region>> \o PinDigest(pins) \o SettingsDigest(s)

\* width and height are functions of the region
generate_base_map_cache_key(g, M, region) ==
    BaseMapKey(region, "1500", "h", ToSettingsDict(SettingsOf(M, g)))

generate_cache_key(type, g, M) ==
    CASE type = "base_map" -> generate_base_map_cache_key(g, M, "germany")
      [] type = "closeup_base_map" ->
            <<"closeup", "base", "map", "state", StateName, "1400", "h">> \o BaseSettingsHash(g, M)
      [] type = "final_map" ->
            FinalMapKey(RegionOf(M, g), PinsOf(M, g), ToSettingsDict(SettingsOf(M, g)))
      [] type = "closeup" ->
            <<"closeup", "state", StateName>> \o PinHash(g, M) \o generate_settings_hash(g, M)

IsPrefix(p, k) == Len(p) <= Len(k) /\ SubSeq(k, 1, Len(p)) = p

\* the patterns of Path.glob used by the invalidations
GlobBase == <<"base", "map">>               \* base_map_*.png
GlobCloseupBase == <<"closeup", "base", "map">>  \* closeup_base_map_*.png
GlobFinal == <<"final", "map">>             \* final_map_*.png
GlobCloseup == <<"closeup">>                \* closeup_*.png
GlobAll == << >>                            \* *.png

Glob(d, dir, pattern) == {f \in d : f.dir = dir /\ IsPrefix(pattern, f.key)}

Unlink(d, dir, pattern) == d \ Glob(d, dir, pattern)

FileExists(d, dir, key) == \E f \in d : f.dir = dir /\ f.key = key
FileAt(d, dir, key) == CHOOSE f \in d : f.dir = dir /\ f.key = key

\* a write that leaves the earlier file of that name in place
WriteFile_KeepOld(d, dir, key, img, g) ==
    d \cup {[dir |-> dir, key |-> key, img |-> [img EXCEPT !.pre = FALSE], by |-> g]}

\* image.save(cache_file) / f.write: replaces the file of that name
WriteFile(d, dir, key, img, g) ==
    {f \in d : ~(f.dir = dir /\ f.key = key)}
        \cup {[dir |-> dir, key |-> key, img |-> [img EXCEPT !.pre = FALSE], by |-> g]}

\* a file that is not a readable PNG: Image.open does not identify it, or
\* it does (the header is intact) and reading the pixel data fails later
CorruptKinds == {"unidentifiable", "truncated"}
Corrupt(kind) == [palette |-> kind, marks |-> {}, pre |-> FALSE]
IsCorrupt(img) == img.palette \in CorruptKinds

\* how a write ends: the file is written, the write raises before the file
\* is touched, or it raises after the file was created or truncated
WriteOutcomes == {"ok", "fail", "partial"}
NoFault == [base |-> "ok", final |-> "ok"]

\* a cache write whose exception is not caught
CacheWriteRaises_Unguarded(w) == w # "ok"

\* cache_item and cache_base_map: try ... except Exception: log.warning
CacheWriteRaises(w) == FALSE

WriteFileIO(d, dir, key, img, g, w) ==
    CASE w = "ok" -> WriteFile(d, dir, key, img, g)
      [] w = "fail" -> d
      [] w = "partial" -> WriteFile(d, dir, key, Corrupt("truncated"), g)

\* the artifact type a file name belongs to
IsBaseFile(f) == IsPrefix(GlobBase, f.key)
IsCloseupBaseFile(f) == IsPrefix(GlobCloseupBase, f.key)
IsFinalFile(f) == IsPrefix(GlobFinal, f.key)
IsCloseupFile(f) == IsPrefix(GlobCloseup, f.key) /\ ~IsCloseupBaseFile(f)
IsBaseKey(k) == IsPrefix(GlobBase, k) \/ IsPrefix(GlobCloseupBase, k)

(***************************************************************************)
(* The two cache tiers as one store S = [mem, disk].                       *)
(***************************************************************************)
\* memory_cache.set(cache_key, image); the wall-clock time stored next to
\* the value plays no part in any decision, the order of the entries does
MemSet(c, k, img) == LRUCache_set(c, k, [img EXCEPT !.pre = FALSE], clock)

\* drawing on an Image object that the memory tier also holds changes the
\* cached value in place (its position in the OrderedDict stays)
DrawOnCached(c, k, marks) ==
    [i \in 1..Len(c) |->
        IF c[i].key = k THEN [c[i] EXCEPT !.value.marks = @ \cup marks] ELSE c[i]]

\* get_cached_base_map and get_cached_item for the two base types: how is
\* "memory" (the cached object itself is returned), "disk" (a copy of the
\* opened file is returned, the opened file goes to memory) or "miss"
GetCachedBase(type, S, g, M) ==
    LET key == generate_cache_key(type, g, M)
        dir == _get_cache_location(g, M)
    IN  IF type = "base_map" /\ ~MapsTruthy(M)
        THEN [mem |-> S.mem, how |-> "miss", img |-> Raster("default")]
        ELSE IF key \in CacheKeys(S.mem)
        THEN [mem |-> LRUCache_get(S.mem, key, clock), how |-> "memory",
              img |-> LRUCache_lookup(S.mem, key)]
        ELSE IF FileExists(S.disk, dir, key)
        THEN LET image == FileAt(S.disk, dir, key).img
             IN  CASE image.palette = "unidentifiable" ->
                          \* Image.open raises
                          [mem |-> S.mem, how |-> "miss", img |-> Raster("default")]
                   [] image.palette = "truncated" ->
                          \* Image.open succeeds, memory_cache.set, image.copy() raises
                          [mem |-> MemSet(S.mem, key, image), how |-> "miss",
                           img |-> Raster("default")]
                   [] OTHER ->
                          [mem |-> MemSet(S.mem, key, image), how |-> "disk", img |-> image]
        ELSE [mem |-> S.mem, how |-> "miss", img |-> Raster("default")]

get_cached_base_map(S, g, M) == GetCachedBase("base_map", S, g, M)

\* a lookup of final maps and close-ups that searches the shared directory only
HasCachedItem_SharedOnly(type, S, g, M) ==
    FileExists(S.disk, Shared, generate_cache_key(type, g, M))

\* get_cached_item for final_map and closeup: only the disk is looked at
HasCachedItem(type, S, g, M) ==
    FileExists(S.disk, _get_cache_location(g, M), generate_cache_key(type, g, M))

\* cache_item: key and directory are computed from maps as they are now;
\* the memory tier is set before the file is written, and an exception of
\* either is logged
cache_item_io(type, S, g, M, img, w) ==
    LET key == generate_cache_key(type, g, M)
        dir == _get_cache_location(g, M)
    IN  IF type \in {"base_map", "closeup_base_map"}
        THEN [mem |-> MemSet(S.mem, key, img),
              disk |-> WriteFileIO(S.disk, dir, key, img, g, w)]
        ELSE [mem |-> S.mem, disk |-> WriteFileIO(S.disk, dir, key, img, g, w)]

cache_item(type, S, g, M, img) == cache_item_io(type, S, g, M, img, "ok")

cache_base_map_io(S, g, M, img, region, w) ==
    LET key == generate_base_map_cache_key(g, M, region)
        dir == _get_cache_location(g, M)
    IN  IF MapsTruthy(M)
        THEN [mem |-> MemSet(S.mem, key, img),
              disk |-> WriteFileIO(S.disk, dir, key, img, g, w)]
        ELSE S

cache_base_map(S, g, M, img, region) == cache_base_map_io(S, g, M, img, region, "ok")

\* draw_pins_on_map(base_map, ...) then cache_map / cache_closeup: 'cached'
\* says that base_map is the object held by the memory tier
DrawAndCacheIO(finalType, baseType, S, g, M, base, cached, pins, w) ==
    LET bkey == generate_cache_key(baseType, g, M)
        final == [base EXCEPT !.marks = @ \cup PinMarks(pins)]
        drawn == [mem |-> IF cached THEN DrawOnCached(S.mem, bkey, PinMarks(pins)) ELSE S.mem,
                  disk |-> S.disk]
    IN  cache_item_io(finalType, drawn, g, M, final, w)

DrawAndCache(finalType, baseType, S, g, M, base, cached, pins) ==
    DrawAndCacheIO(finalType, baseType, S, g, M, base, cached, pins, "ok")

\* the part of a render request that runs from the cache lookups to the
\* first await of the renderer: "done" when a cache answered the request
RenderBeginIO(finalType, baseType, S, g, M, w) ==
    IF HasCachedItem(finalType, S, g, M)
    THEN [done |-> TRUE, S |-> S, ret |-> "cached", wrote |-> {}]
    ELSE LET r == GetCachedBase(baseType, S, g, M)
             S1 == [mem |-> r.mem, disk |-> S.disk]
         IN  IF r.how = "miss"
             THEN [done |-> FALSE, S |-> S1, ret |-> "pending", wrote |-> {}]
             ELSE IF IsCorrupt(r.img)
             \* drawing on the cached object raises: the request returns None
             THEN [done |-> TRUE, S |-> S1, ret |-> "None", wrote |-> {}]
             ELSE [done |-> TRUE,
                   S |-> DrawAndCacheIO(finalType, baseType, S1, g, M, r.img,
                                        r.how = "memory", PinsOf(M, g), w),
                   ret |-> IF CacheWriteRaises(w) THEN "None" ELSE "drawn",
                   wrote |-> {"final"}]

RenderBegin(finalType, baseType, S, g, M) ==
    RenderBeginIO(finalType, baseType, S, g, M, "ok")

\* the part after render_base_map returned img: cache the base, draw, cache
RenderEndIO(finalType, baseType, S, g, M, img, pins, io) ==
    LET S2 == IF baseType = "base_map" THEN cache_base_map_io(S, g, M, img, "germany", io.base)
              ELSE cache_item_io(baseType, S, g, M, img, io.base)
        cached == baseType # "base_map" \/ MapsTruthy(M)
    IN  DrawAndCacheIO(finalType, baseType, S2, g, M, img, cached, pins, io.final)

RenderEnd(finalType, baseType, S, g, M, img, pins) ==
    RenderEndIO(finalType, baseType, S, g, M, img, pins, NoFault)

\* the same part as the request sees it: the store it leaves, what the
\* request returns ("None" from the handler's own except clause) and which
\* files it tried to write
FinishRequest(finalType, baseType, S, g, M, img, pins, io) ==
    LET caches == baseType # "base_map" \/ MapsTruthy(M)
        S2 == IF baseType = "base_map" THEN cache_base_map_io(S, g, M, img, "germany", io.base)
              ELSE cache_item_io(baseType, S, g, M, img, io.base)
    IN  IF caches /\ CacheWriteRaises(io.base)
        THEN [S |-> S2, ret |-> "None", wrote |-> {"base"}]
        ELSE [S |-> RenderEndIO(finalType, baseType, S, g, M, img, pins, io),
              ret |-> IF CacheWriteRaises(io.final) THEN "None" ELSE "drawn",
              wrote |-> IF caches THEN {"base", "final"} ELSE {"final"}]

\* _generate_map_image with no progress callback: nothing in it suspends
_generate_map_image_io(S, g, M, io) ==
    LET b == RenderBeginIO("final_map", "base_map", S, g, M, io.final)
    IN  IF b.done THEN [S |-> b.S, ret |-> b.ret, wrote |-> b.wrote]
        ELSE FinishRequest("final_map", "base_map", b.S, g, M,
                           Raster(get_map_colors(g, M)), PinsOf(M, g), io)

_generate_map_image(S, g, M) == _generate_map_image_io(S, g, M, NoFault).S

(***************************************************************************)
(* Invalidations (core/map_storage.py).                                    *)
(***************************************************************************)
invalidate_final_map_cache_only(S, g) ==
    [mem |-> S.mem, disk |-> Unlink(Unlink(S.disk, Shared, GlobFinal), g, GlobFinal)]

invalidate_cache(S, g, types) ==
    LET d1 == IF "base_map" \in types THEN Unlink(S.disk, g, GlobBase) ELSE S.disk
        d2 == IF "closeup_base_map" \in types THEN Unlink(d1, g, GlobCloseupBase) ELSE d1
        d3 == IF "final_map" \in types
              THEN Unlink(Unlink(d2, Shared, GlobFinal), g, GlobFinal) ELSE d2
        d4 == IF "closeup" \in types
              THEN Unlink(Unlink(d3, Shared, GlobCloseup), g, GlobCloseup) ELSE d3
    IN  [mem |-> IF "base_map" \in types \/ "closeup_base_map" \in types
                 THEN LRUCache_clear(S.mem) ELSE S.mem,
         disk |-> d4]

AllTypes == {"base_map", "final_map", "closeup", "closeup_base_map"}

invalidate_map_cache(S, g) == invalidate_cache(S, g, AllTypes)

\* a settings-change invalidation that forgets the memory tier
invalidate_all_png_files_KeepMemory(S, g) ==
    [mem |-> S.mem, disk |-> Unlink(S.disk, g, GlobAll)]

invalidate_all_png_files_for_settings_change(S, g) ==
    [mem |-> LRUCache_clear(S.mem), disk |-> Unlink(S.disk, g, GlobAll)]

admin_clear_cache(S, g) ==
    [mem |-> LRUCache_clear(S.mem),
     disk |-> Unlink(Unlink(Unlink(S.disk, g, GlobAll), Shared, GlobFinal), Shared, GlobCloseup)]

(***************************************************************************)
(* State after construction: no map, empty cache tiers, nothing in flight. *)
(***************************************************************************)
JobIds == 1..MaxJobs
IdleJob == [pc |-> "idle", g |-> "g1", kind |-> "main", palette |-> "default",
            live |-> TRUE, snap |-> NoPins]
NoView == [active |-> FALSE, settings |-> NoSettings,
           img |-> Raster("default"), base |-> Raster("default")]
NotApplying == [active |-> FALSE, base |-> Raster("default"), hadOld |-> FALSE]
NoCont == [op |-> "none", g |-> "g1", why |-> "none"]
NoCall == [fn |-> "none"]

\* tasks that call the memory tier at the same time
Tasks == {"t1", "t2"}
NoHolder == "unlocked"
IdleTask == [pc |-> "idle", op |-> "none", key |-> "none", value |-> "none", t |-> 0,
             found |-> FALSE]
\* LRUCache.__init__: asyncio.Lock(), nobody inside
NewSched ==
    [_lock |-> NoHolder, tasks |-> [t \in Tasks |-> IdleTask], order |-> << >>,
     contended |-> FALSE]

\* CacheManager.__init__: cleanup_task = None; the managed directory is empty.
\* starts and stops count the calls of start_cleanup_task and
\* stop_cleanup_task, created the tasks made by asyncio.create_task, orphans
\* the tasks still running that cleanup_task no longer refers to
NewCleaner ==
    [pc |-> "none", must_cancel |-> FALSE, stop |-> "idle", at |-> "none",
     files |-> << >>, todo |-> << >>, added |-> 0, passes |-> 0,
     starts |-> 0, stops |-> 0, created |-> 0, orphans |-> 0]

\* the 500 ms throttle of update_progress, in quarters of a second
MinInterval == 2
NoImage == "None"
NoUpdate == [percentage |-> 0, image |-> NoImage, at |-> 0, since |-> 0, emitted |-> FALSE]
\* MapProgressHandler.__init__; the loop's monotonic clock is well past 0.5 s
NewHandler ==
    [_last_update |-> 0, _current_image |-> NoImage, _current_percentage |-> 0,
     now |-> MinInterval, updates |-> 0, emits |-> 0, last |-> NoUpdate]

Init ==
    /\ memory_cache = << >>
    /\ clock = 0
    /\ lastOp = NoOp
    /\ evicted = {}
    /\ maps = [g \in Guilds |-> NoMap]
    /\ disk = {}
    /\ jobs = [j \in JobIds |-> IdleJob]
    /\ views = [g \in Guilds |-> NoView]
    /\ applying = [g \in Guilds |-> NotApplying]
    /\ cont = NoCont
    /\ requests = 0
    /\ call = NoCall
    /\ handler = NewHandler
    /\ sched = NewSched
    /\ cleaner = NewCleaner

Store == [mem |-> memory_cache, disk |-> disk]

SetStore(S) == memory_cache' = S.mem /\ disk' = S.disk

Ready == cont = NoCont

\* a command, button or event starts a handler
Request == requests < MaxRequests /\ requests' = requests + 1

FinalType(kind) == IF kind = "main" THEN "final_map" ELSE "closeup"
BaseType(kind) == IF kind = "main" THEN "base_map" ELSE "closeup_base_map"

(***************************************************************************)
(* Render requests that suspend: /map_create (_update_map with a progress  *)
(* message) and the state close-up button.                                 *)
(***************************************************************************)
\* create_map: the map data is stored, then _update_map awaits the progress message
CreateMap(g, j) ==
    /\ Ready
    /\ Request
    /\ ~maps[g].exists
    /\ jobs[j].pc = "idle"
    /\ maps' = [maps EXCEPT ![g] = [exists |-> TRUE, pins |-> NoPins, settings |-> NoSettings]]
    /\ jobs' = [jobs EXCEPT ![j] = [IdleJob EXCEPT !.pc = "start", !.g = g, !.kind = "main"]]
    /\ UNCHANGED <<auxVars, lruVars, disk, views, applying, cont>>

\* state_callback: edits the message, then calls _generate_state_closeup
CloseupRequest(g, j) ==
    /\ Ready
    /\ Request
    /\ maps[g].exists
    /\ jobs[j].pc = "idle"
    /\ jobs' = [jobs EXCEPT ![j] = [IdleJob EXCEPT !.pc = "start", !.g = g, !.kind = "closeup"]]
    /\ UNCHANGED <<auxVars, lruVars, maps, disk, views, applying, cont>>

\* _generate_map_image / _generate_state_closeup up to the renderer's first await
JobBegin(j) ==
    /\ Ready
    /\ jobs[j].pc = "start"
    /\ LET job == jobs[j]
           b == RenderBegin(FinalType(job.kind), BaseType(job.kind), Store, job.g, maps)
       IN  /\ SetStore(b.S)
           /\ jobs' = [jobs EXCEPT ![j] =
                         IF b.done THEN IdleJob
                         ELSE [job EXCEPT !.pc = "rendering", !.live = maps[job.g].exists,
                                          !.snap = NoPins]]
    /\ UNCHANGED <<auxVars, requests, clock, lastOp, evicted, maps, views, applying, cont>>

\* render_base_map reads the colours after its first progress update
JobReadColors(j) ==
    /\ Ready
    /\ jobs[j].pc = "rendering"
    /\ jobs' = [jobs EXCEPT ![j] = [@ EXCEPT !.pc = "colored",
                                            !.palette = get_map_colors(jobs[j].g, maps)]]
    /\ UNCHANGED <<auxVars, requests, lruVars, maps, disk, views, applying, cont>>

\* the renderer returned: cache the base map, draw the pins, cache the result.
\* _generate_map_image draws the pins dict it read before rendering (the dict
\* is changed in place, a deleted map leaves the old dict behind);
\* _generate_state_closeup reads the pins now.
JobFinish(j) ==
    /\ Ready
    /\ jobs[j].pc = "colored"
    /\ LET job == jobs[j]
           pins == IF job.kind = "main" /\ ~job.live THEN job.snap ELSE PinsOf(maps, job.g)
       IN  SetStore(RenderEnd(FinalType(job.kind), BaseType(job.kind), Store, job.g, maps,
                              Raster(job.palette), pins))
    /\ jobs' = [jobs EXCEPT ![j] = IdleJob]
    /\ UNCHANGED <<auxVars, requests, clock, lastOp, evicted, maps, views, applying, cont>>

(***************************************************************************)
(* Pin changes.  Each handler changes the pins, invalidates and then calls *)
(* _update_map without progress message; cont holds that call.             *)
(***************************************************************************)
UpdateMapNext(g, why) == [op |-> "update_map", g |-> g, why |-> why]

\* _handle_pin_location / the update modal: add or move the user's pin
PinChange(g, u, pos) ==
    /\ Ready
    /\ Request
    /\ maps[g].exists
    /\ maps[g].pins[u] # pos
    /\ maps' = [maps EXCEPT ![g].pins[u] = pos]
    /\ SetStore(invalidate_final_map_cache_only(Store, g))
    /\ cont' = UpdateMapNext(g, "pin")
    /\ UNCHANGED <<auxVars, clock, lastOp, evicted, jobs, views, applying>>

\* UserPinOptionsView.remove_location
RemovePin(g, u) ==
    /\ Ready
    /\ Request
    /\ maps[g].exists
    /\ maps[g].pins[u] # NoPin
    /\ maps' = [maps EXCEPT ![g].pins[u] = NoPin]
    /\ SetStore(invalidate_final_map_cache_only(Store, g))
    /\ cont' = UpdateMapNext(g, "pin")
    /\ UNCHANGED <<auxVars, clock, lastOp, evicted, jobs, views, applying>>

\* on_member_remove
MemberRemove(g, u) ==
    /\ Ready
    /\ Request
    /\ maps[g].exists
    /\ maps[g].pins[u] # NoPin
    /\ maps' = [maps EXCEPT ![g].pins[u] = NoPin]
    /\ SetStore(invalidate_map_cache(Store, g))
    /\ cont' = UpdateMapNext(g, "member")
    /\ UNCHANGED <<auxVars, clock, lastOp, evicted, jobs, views, applying>>

\* _update_map(guild_id, channel_id): _generate_map_image runs to its end
UpdateMap ==
    /\ cont.op = "update_map"
    /\ SetStore(_generate_map_image(Store, cont.g, maps))
    /\ cont' = NoCont
    /\ UNCHANGED <<auxVars, requests, clock, lastOp, evicted, maps, jobs, views, applying>>

(***************************************************************************)
(* Previews and settings changes (cogs/map.py, core/map_views_admin.py).   *)
(***************************************************************************)
\* _generate_fast_pin_preview: the base map comes from the cache or is
\* rendered and cached; the preview pins are drawn on that object
_generate_fast_pin_preview(S, g, M) ==
    LET r == get_cached_base_map(S, g, M)
        S1 == [mem |-> r.mem, disk |-> S.disk]
        S2 == IF r.how = "miss"
              THEN cache_base_map(S1, g, M, Raster(get_map_colors(g, M)), "germany")
              ELSE S1
        cached == r.how = "memory" \/ (r.how = "miss" /\ MapsTruthy(M))
    IN  [mem |-> IF cached
                 THEN DrawOnCached(S2.mem, generate_base_map_cache_key(g, M, "germany"), PinMarks(PinsOf(M, g)))
                 ELSE S2.mem,
         disk |-> S2.disk]

PinPreview(g) ==
    /\ Ready
    /\ Request
    /\ maps[g].exists
    /\ SetStore(_generate_fast_pin_preview(Store, g, maps))
    /\ UNCHANGED <<auxVars, clock, lastOp, evicted, maps, jobs, views, applying, cont>>

\* dict.update(view.settings): the keys the view holds replace the current ones
UpdateSettings(cur, new) ==
    [visual |-> IF new.visual # NoSetting THEN new.visual ELSE cur.visual,
     pins |-> IF new.pins # NoSetting THEN new.pins ELSE cur.pins]

\* PinSettingsPreviewView._apply_settings, up to its call of _update_map
ApplyPinSettings(g, p) ==
    /\ Ready
    /\ Request
    /\ maps[g].exists
    /\ LET new == UpdateSettings(maps[g].settings, [visual |-> maps[g].settings.visual, pins |-> p])
           S1 == invalidate_all_png_files_for_settings_change(Store, g)
       IN  /\ maps' = [maps EXCEPT ![g].settings = new]
           /\ SetStore(invalidate_final_map_cache_only(S1, g))
    /\ cont' = UpdateMapNext(g, "pinsettings")
    /\ UNCHANGED <<auxVars, clock, lastOp, evicted, jobs, views, applying>>

\* ColorSettingsModal.on_submit and _generate_preview_map: the base map is
\* taken from the cache when the colours are the current ones, rendered
\* otherwise; a copy of it is kept for caching, the pins are drawn on it
ColorPreview(g, c) ==
    /\ Ready
    /\ Request
    /\ maps[g].exists
    /\ LET changed == maps[g].settings.visual # c
           r == IF changed THEN [mem |-> memory_cache, how |-> "miss", img |-> Raster(c)]
                ELSE get_cached_base_map(Store, g, maps)
           base == IF r.how = "miss" THEN Raster(c) ELSE r.img
           marks == PinMarks(maps[g].pins)
       IN  /\ memory_cache' = IF r.how = "memory"
                              THEN DrawOnCached(r.mem, generate_base_map_cache_key(g, maps, "germany"), marks)
                              ELSE r.mem
           /\ views' = [views EXCEPT ![g] =
                          [active |-> TRUE,
                           settings |-> [visual |-> c, pins |-> maps[g].settings.pins],
                           img |-> [base EXCEPT !.marks = @ \cup marks, !.pre = FALSE],
                           base |-> [base EXCEPT !.pre = FALSE]]]
    /\ UNCHANGED <<auxVars, clock, lastOp, evicted, maps, disk, jobs, applying, cont>>

\* every raster written before this change of visual settings is marked
MarkOld(S, g) ==
    [mem |-> [i \in 1..Len(S.mem) |-> [S.mem[i] EXCEPT !.value.pre = TRUE]],
     disk |-> {IF f.dir = g THEN [f EXCEPT !.img.pre = TRUE] ELSE f : f \in S.disk}]

\* ColorSettingsPreviewView._apply_settings up to the first await of
\* _apply_cached_preview_as_map: store the settings, remove the guild's
\* PNG files, cache the preview as the final map
ApplyColors(g) ==
    /\ Ready
    /\ Request
    /\ views[g].active
    /\ maps[g].exists
    /\ ~applying[g].active
    /\ LET M == [maps EXCEPT ![g].settings = UpdateSettings(@, views[g].settings)]
           S1 == invalidate_all_png_files_for_settings_change(MarkOld(Store, g), g)
       IN  /\ maps' = M
           /\ SetStore(cache_item("final_map", S1, g, M, views[g].img))
           /\ applying' = [applying EXCEPT ![g] =
                [active |-> TRUE, base |-> views[g].base,
                 hadOld |-> (Glob(disk, g, GlobAll) # {} /\ memory_cache # << >>)]]
    /\ views' = [views EXCEPT ![g] = NoView]
    /\ UNCHANGED <<auxVars, clock, lastOp, evicted, jobs, cont>>

\* the rest of _apply_settings after _apply_cached_preview_as_map returned
\* success: the preview's base map is cached, then final maps and close-ups
\* are invalidated; on failure everything is invalidated and the map redrawn
ApplyColorsFinish(g, success) ==
    /\ Ready
    /\ applying[g].active
    /\ applying' = [applying EXCEPT ![g] = NotApplying]
    /\ IF success
       THEN /\ SetStore(invalidate_cache(cache_base_map(Store, g, maps, applying[g].base,
                                                         RegionOf(maps, g)), g,
                                         {"closeup_base_map", "final_map", "closeup"}))
            /\ cont' = NoCont
       ELSE /\ SetStore(invalidate_cache(Store, g, AllTypes))
            /\ cont' = IF maps[g].exists THEN UpdateMapNext(g, "colors") ELSE NoCont
    /\ UNCHANGED <<auxVars, requests, clock, lastOp, evicted, maps, jobs, views>>

\* MapRemovalConfirmView.confirm_delete: invalidate, then del maps[guild_id]
DeleteMap(g) ==
    /\ Ready
    /\ Request
    /\ maps[g].exists
    /\ SetStore(invalidate_map_cache(Store, g))
    /\ maps' = [maps EXCEPT ![g] = NoMap]
    /\ jobs' = [j \in DOMAIN jobs |->
                  IF jobs[j].pc \in {"rendering", "colored"} /\ jobs[j].g = g /\ jobs[j].live
                  THEN [jobs[j] EXCEPT !.live = FALSE, !.snap = maps[g].pins]
                  ELSE jobs[j]]
    /\ UNCHANGED <<auxVars, clock, lastOp, evicted, views, applying, cont>>

\* AdminToolsView.clear_cache (the button exists for custom settings only)
AdminClearCache(g) ==
    /\ Ready
    /\ Request
    /\ maps[g].exists
    /\ _has_custom_settings(g, maps)
    /\ SetStore(admin_clear_cache(Store, g))
    /\ UNCHANGED <<auxVars, clock, lastOp, evicted, maps, jobs, views, applying, cont>>

Next ==
    \/ \E g \in Guilds, j \in JobIds : CreateMap(g, j)
    \/ \E g \in Guilds, j \in JobIds : CloseupRequest(g, j)
    \/ \E j \in JobIds : JobBegin(j)
    \/ \E j \in JobIds : JobReadColors(j)
    \/ \E j \in JobIds : JobFinish(j)
    \/ \E g \in Guilds, u \in Users, pos \in Positions : PinChange(g, u, pos)
    \/ \E g \in Guilds, u \in Users : RemovePin(g, u)
    \/ \E g \in Guilds, u \in Users : MemberRemove(g, u)
    \/ UpdateMap
    \/ \E g \in Guilds : PinPreview(g)
    \/ \E g \in Guilds, p \in PinChoices : ApplyPinSettings(g, p)
    \/ \E g \in Guilds, c \in ColorChoices : ColorPreview(g, c)
    \/ \E g \in Guilds : ApplyColors(g)
    \/ \E g \in Guilds, ok \in BOOLEAN : ApplyColorsFinish(g, ok)
    \/ \E g \in Guilds : DeleteMap(g)
    \/ \E g \in Guilds : AdminClearCache(g)

Spec == Init /\ [][Next]_vars

(***************************************************************************)
(* The memory tier on its own: any sequence of get, set, remove and clear. *)
(* Each call holds LRUCache._lock and awaits nothing while it holds it, so *)
(* the calls of concurrent tasks run one after the other.                  *)
(***************************************************************************)
Tick(op, k) ==
    /\ clock < MaxClock
    /\ clock' = clock + 1
    /\ lastOp' = [op |-> op, key |-> k]

LruGet(k) ==
    /\ Tick("get", k)
    /\ memory_cache' = LRUCache_get(memory_cache, k, clock)
    /\ evicted' = {}
    /\ UNCHANGED cogVars

LruSet(k, v) ==
    /\ Tick("set", k)
    /\ memory_cache' = LRUCache_set(memory_cache, k, v, clock)
    /\ evicted' = Dropped(memory_cache, memory_cache')
    /\ UNCHANGED cogVars

LruRemove(k) ==
    /\ Tick("remove", k)
    /\ memory_cache' = LRUCache_remove(memory_cache, k)
    /\ evicted' = {}
    /\ UNCHANGED cogVars

LruClear ==
    /\ Tick("clear", "none")
    /\ memory_cache' = LRUCache_clear(memory_cache)
    /\ evicted' = {}
    /\ UNCHANGED cogVars

NextLRU ==
    \/ \E k \in LruKeys : LruGet(k)
    \/ \E k \in LruKeys, v \in LruValues : LruSet(k, v)
    \/ \E k \in LruKeys : LruRemove(k)
    \/ LruClear

SpecLRU == Init /\ [][NextLRU]_vars

(***************************************************************************)
(* Properties of the memory tier.                                          *)
(***************************************************************************)
\* C3: after every completed LRUCache.set, whatever get, set, remove and
\* clear calls came before, the memory tier holds at most max_items entries.
C3_AtMostMaxItems == Len(memory_cache) <= max_items

\* a set of a new key into a full cache has completed
C3_Witness ==
    /\ lastOp.op = "set"
    /\ evicted # {}
    /\ Len(memory_cache) = max_items

\* the key whose last get or set is the oldest
OldestKey(c) ==
    CHOOSE k \in CacheKeys(c) : \A i \in 1..Len(c) : c[IndexOf(c, k)].atime <= c[i].atime

\* C4: setting a new key into a cache that holds max_items entries evicts
\* exactly the entry whose last get or set is the oldest and no other; a get
\* counts as an access, so a key that was read is evicted only after every
\* entry not accessed since.
C4_EvictsLeastRecentlyUsed ==
    [][(/\ lastOp'.op = "set"
        /\ lastOp'.key \notin CacheKeys(memory_cache)
        /\ Len(memory_cache) = max_items)
       => CacheKeys(memory_cache')
            = (CacheKeys(memory_cache) \ {OldestKey(memory_cache)}) \cup {lastOp'.key}]_vars

\* an entry was evicted although an entry inserted before it is still
\* cached, because a get promoted the older one
C4_Witness ==
    /\ lastOp.op = "set"
    /\ \E e \in evicted : \E i \in 1..Len(memory_cache) :
          /\ memory_cache[i].itime < e.itime
          /\ memory_cache[i].via = "get"

(***************************************************************************)
(* Properties of the map cache.                                            *)
(***************************************************************************)
IsBaseArtifact(f) == IsBaseFile(f) \/ IsCloseupBaseFile(f)

\* C1: the raster held in the memory tier under a base_map or
\* closeup_base_map key never carries a pin overlay, whatever renders,
\* previews, pin changes and cache hits happened.
C1_CachedBaseHasNoPins ==
    \A i \in 1..Len(memory_cache) :
        IsBaseKey(memory_cache[i].key) => memory_cache[i].value.marks = {}

\* C2: when _generate_map_image has run for an owner, the final map cached
\* under that owner's key shows exactly the owner's current pins.
C2_FinalMapShowsCurrentPins ==
    [][(cont.op = "update_map" /\ cont'.op = "none")
       => LET g == cont.g
              key == generate_cache_key("final_map", g, maps')
              dir == _get_cache_location(g, maps')
          IN  /\ FileExists(disk', dir, key)
              /\ FileAt(disk', dir, key).img.marks = PinMarks(PinsOf(maps', g))]_vars

\* C5: a file written for an owner whose map data has settings at the time
\* of the write lies in the owner's directory, not in the shared one.
C5_CustomOwnerWritesOwnDirectory ==
    [][\A f \in disk' \ disk :
          _has_custom_settings(f.by, maps') => (f.dir = f.by /\ f.dir # Shared)]_vars

\* an owner with settings has a base map and a final map in its directory
C5_Witness ==
    \E g \in Guilds :
        /\ _has_custom_settings(g, maps)
        /\ \E f \in disk : f.by = g /\ f.dir = g /\ IsBaseFile(f)
        /\ \E f \in disk : f.by = g /\ f.dir = g /\ IsFinalFile(f)

\* C6: every base_map and closeup_base_map file in the shared directory was
\* rendered with the default colours and borders.
C6_SharedBaseIsDefault ==
    \A f \in disk : (f.dir = Shared /\ IsBaseArtifact(f)) => f.img.palette = "default"

\* C7: the invalidation of a pin-only change (add, move, remove, member
\* left) deletes no base_map or closeup_base_map file in either scope and
\* leaves the memory tier as it was.
C7_PinChangeKeepsBaseArtifacts ==
    [][(cont.op = "none" /\ cont'.op = "update_map" /\ cont'.why \in {"pin", "member"})
       => /\ \A f \in disk : IsBaseArtifact(f) => f \in disk'
          /\ memory_cache' = memory_cache]_vars

\* C8: when the invalidation of a pin-only change has completed, no
\* final_map and no closeup file of that owner is left on disk.
C8_PinChangeRemovesDerivedArtifacts ==
    (cont.op = "update_map" /\ cont.why \in {"pin", "member"})
        => ~\E f \in disk : f.by = cont.g /\ (IsFinalFile(f) \/ IsCloseupFile(f))

\* C9: no file in an owner's directory and no entry of the memory tier was
\* written before a change of that owner's visual settings that has been
\* applied since.
C9_NothingFromBeforeSettingsChange ==
    /\ \A f \in disk : f.dir \in Guilds => ~f.img.pre
    /\ \A i \in 1..Len(memory_cache) : ~memory_cache[i].value.pre

\* a change of colours was applied while the owner's directory held files
\* and the memory tier held entries
C9_Witness == \E g \in Guilds : applying[g].active /\ applying[g].hadOld

\* C10: the steps that apply a change of visual settings delete no base_map
\* and no closeup_base_map file from the shared directory.
C10_SettingsChangeKeepsSharedBase ==
    [][(applying' # applying)
       => \A f \in disk : (f.dir = Shared /\ IsBaseArtifact(f))
                              => FileExists(disk', Shared, f.key)]_vars

\* C11: when a map deletion has completed, no file written for that owner is
\* left in the owner's directory or in the shared directory, and the memory
\* tier is empty.
C11_DeletionRemovesOwnersArtifacts ==
    [][\A g \in Guilds :
          (maps[g].exists /\ ~maps'[g].exists)
              => /\ memory_cache' = << >>
                 /\ ~\E f \in disk' : f.by = g]_vars

\* C12: admin_clear_cache, run for an owner who has the Clear Cache button,
\* deletes no base_map and no closeup_base_map file of the shared directory.
C12_AdminClearKeepsSharedBase ==
    \A g \in Guilds :
        (maps[g].exists /\ _has_custom_settings(g, maps))
            => \A f \in disk : (f.dir = Shared /\ IsBaseArtifact(f))
                                  => f \in admin_clear_cache(Store, g).disk

(***************************************************************************)
(* The key functions on their own: two inputs and the keys they get.       *)
(***************************************************************************)
Regions == {"germany", "world"}
Widths == {"1500"}
Heights == {"h", "h2"}
SettingsDicts ==
    [colors : {NoSetting, "c1", "c2"}, borders : {NoSetting, "b1"},
     borderpin : {NoSetting, "q1"}, pins : {NoSetting, "p1"}]
PinSets == [Users -> Positions \cup {NoPin}]
KeyInputs ==
    [region : Regions, width : Widths, height : Heights, settings : SettingsDicts,
     pins : PinSets]

KeysOf(i) ==
    [base |-> BaseMapKey(i.region, i.width, i.height, i.settings),
     final |-> FinalMapKey(i.region, i.pins, i.settings)]

\* one call per behaviour: the functions keep no state
KeyCall ==
    /\ call = NoCall
    /\ \E a \in KeyInputs, b \in KeyInputs :
          call' = [fn |-> "keys", a |-> a, b |-> b, ka |-> KeysOf(a), kb |-> KeysOf(b)]
    /\ UNCHANGED <<lruVars, storeVars, handler, sched, cleaner>>

NextKeys == KeyCall

SpecKeys == Init /\ [][NextKeys]_vars

SameCanvas == call.a.region = call.b.region /\ call.a.width = call.b.width
                /\ call.a.height = call.b.height

\* C13: two inputs that agree on region, width, height, colours and borders
\* get the same base-map key, whatever their pin sets and pin settings are.
C13_BaseKeyIgnoresPins ==
    (/\ call.fn = "keys"
     /\ SameCanvas
     /\ call.a.settings.colors = call.b.settings.colors
     /\ call.a.settings.borders = call.b.settings.borders
     /\ call.a.settings.borderpin = call.b.settings.borderpin)
        => call.ka.base = call.kb.base

\* two owners with custom colours, different pins and different pin settings
\* share a base-map key
C13_Witness ==
    /\ call.fn = "keys"
    /\ SameCanvas
    /\ call.a.settings.colors = "c1" /\ call.b.settings.colors = "c1"
    /\ call.a.settings.borders = call.b.settings.borders
    /\ call.a.settings.borderpin = call.b.settings.borderpin
    /\ call.a.pins # call.b.pins
    /\ call.a.settings.pins # call.b.settings.pins
    /\ call.ka.base = call.kb.base

\* C14: two inputs with the same region, width and height whose colour
\* settings differ get different base-map keys.
C14_BaseKeySeesColours ==
    (/\ call.fn = "keys"
     /\ SameCanvas
     /\ call.a.settings.colors # call.b.settings.colors)
        => call.ka.base # call.kb.base

\* the keys differ although only the colours differ, one owner having no
\* colours of its own
C14_Witness ==
    /\ call.fn = "keys"
    /\ SameCanvas
    /\ call.a.settings.colors = NoSetting /\ call.b.settings.colors = "c2"
    /\ [call.a.settings EXCEPT !.colors = "c2"] = call.b.settings
    /\ call.a.pins = call.b.pins
    /\ call.ka.base # call.kb.base

\* C15: with region and settings fixed, the final_map key changes whenever
\* a pin is added, removed or moved.
C15_FinalKeySeesPins ==
    (/\ call.fn = "keys"
     /\ call.a.region = call.b.region
     /\ call.a.settings = call.b.settings
     /\ call.a.pins # call.b.pins)
        => call.ka.final # call.kb.final

\* a pin moved from one position to another and the final_map key changed
C15_Witness ==
    /\ call.fn = "keys"
    /\ call.a.region = call.b.region
    /\ call.a.settings = call.b.settings
    /\ \E u \in Users : /\ call.a.pins[u] \in Positions
                        /\ call.b.pins[u] \in Positions
                        /\ call.a.pins[u] # call.b.pins[u]
    /\ call.ka.final # call.kb.final

(***************************************************************************)
(* Reuse of cached artifacts.                                              *)
(***************************************************************************)
StoreAfter == [mem |-> memory_cache', disk |-> disk']

\* C16: when a change of pin settings only has been applied for an owner
\* whose base map was cached, the base map is still cached under the same
\* key and the next render gets it from the cache, not from the renderer.
C16_PinSettingsKeepBaseMap ==
    [][(cont.op = "none" /\ cont'.op = "update_map" /\ cont'.why = "pinsettings")
       => LET g == cont'.g
          IN  get_cached_base_map(Store, g, maps).how # "miss"
                => /\ generate_base_map_cache_key(g, maps', "germany")
                        = generate_base_map_cache_key(g, maps, "germany")
                   /\ get_cached_base_map(StoreAfter, g, maps').how # "miss"]_vars

\* C17: when _generate_map_image has completed for an owner and cached its
\* result, the next request with the same pins and settings is answered by
\* the cached final map: the renderer is not called and no tier changes.
C17_SecondRequestServedFromCache ==
    [][\A g \in Guilds :
          (/\ maps'[g].exists
           /\ \/ cont.op = "update_map" /\ cont'.op = "none" /\ cont.g = g
              \/ \E j \in JobIds : /\ jobs[j].pc = "colored" /\ jobs'[j].pc = "idle"
                                   /\ jobs[j].kind = "main" /\ jobs[j].g = g)
          => LET b == RenderBegin("final_map", "base_map", StoreAfter, g, maps')
             IN  b.done /\ b.S = StoreAfter]_vars

\* an owner with custom settings and a pin has its final map cached and no
\* handler is running
C17_Witness ==
    \E g \in Guilds :
        /\ maps[g].exists
        /\ cont = NoCont
        /\ \A j \in JobIds : jobs[j].pc = "idle"
        /\ _has_custom_settings(g, maps)
        /\ PinMarks(maps[g].pins) # {}
        /\ HasCachedItem("final_map", Store, g, maps)

(***************************************************************************)
(* ManagedFileCache.cleanup_if_needed (core/cache_manager.py) as a         *)
(* function of the directory listing: a sequence of files in the order of  *)
(* rglob, each with its size and access time and named by its place in     *)
(* the listing, and of the set of files whose unlink raises.               *)
(***************************************************************************)
RECURSIVE SumSizes(_)
SumSizes(fs) == IF fs = << >> THEN 0 ELSE Head(fs).size + SumSizes(Tail(fs))

get_cache_size(fs) == SumSizes(fs)

\* a sort that leaves the listing as it is
SortByAtime_Unsorted(fs, t) == fs

\* files_with_times.sort(key=lambda x: x[1]): stable, oldest access first
RECURSIVE SortByAtime(_, _)
SortByAtime(fs, t) ==
    IF t > MaxAtime THEN << >>
    ELSE SelectSeq(fs, LAMBDA f : f.atime = t) \o SortByAtime(fs, t + 1)

\* a target without headroom
TargetReached_NoHeadroom(current) == current <= max_size_bytes

\* current_size <= self.max_size_bytes * 0.8
TargetReached(current) == 5 * current <= 4 * max_size_bytes

\* the deletion loop: the files deleted, in order
RECURSIVE DeleteOldest(_, _, _, _)
DeleteOldest(sorted, current, fails, deleted) ==
    IF sorted = << >> THEN deleted
    ELSE LET f == Head(sorted)
         IN  IF f.name \in fails
             THEN DeleteOldest(Tail(sorted), current, fails, deleted)
             ELSE IF TargetReached(current - f.size)
                  THEN Append(deleted, f)
                  ELSE DeleteOldest(Tail(sorted), current - f.size, fails, Append(deleted, f))

SeqToSet(q) == {q[i] : i \in 1..Len(q)}

cleanup_if_needed(fs, fails) ==
    LET current == get_cache_size(fs)
        deleted == IF current <= max_size_bytes THEN << >>
                   ELSE DeleteOldest(SortByAtime(fs, 1), current, fails, << >>)
    IN  [deleted |-> deleted,
         after |-> SelectSeq(fs, LAMBDA f : f \notin SeqToSet(deleted))]

Listings(n) ==
    {[i \in 1..n |-> [name |-> i, size |-> m[i][1], atime |-> m[i][2]]] :
        m \in [1..n -> (1..MaxFileSize) \X (1..MaxAtime)]}

\* one run per behaviour: the directory is whatever it is when the run starts
CleanupCall ==
    /\ call = NoCall
    /\ \E n \in 0..MaxFiles :
          \E fs \in Listings(n), fails \in SUBSET (1..n) :
          call' = [fn |-> "cleanup", files |-> fs, fails |-> fails,
                   out |-> cleanup_if_needed(fs, fails)]
    /\ UNCHANGED <<lruVars, storeVars, handler, sched, cleaner>>

NextFiles == CleanupCall

SpecFiles == Init /\ [][NextFiles]_vars

CleanupRan == call.fn = "cleanup"
OverLimit == get_cache_size(call.files) > max_size_bytes
NoUnlinkFails == call.fails \cap {call.files[i].name : i \in 1..Len(call.files)} = {}

KeepsAllBelowLimit == ~OverLimit => call.out.after = call.files

\* no file is deleted once the target is reached: before each deletion the
\* usage was above 0.8 * max_size_bytes
StopsAtTarget ==
    \A k \in 1..Len(call.out.deleted) :
        ~TargetReached(get_cache_size(call.files)
                          - get_cache_size(SubSeq(call.out.deleted, 1, k - 1)))

\* the files are deleted oldest access first
DeletesInAtimeOrder ==
    \A j, k \in 1..Len(call.out.deleted) :
        j < k => call.out.deleted[j].atime <= call.out.deleted[k].atime

\* C19 as stated: nothing is deleted at or below max_size_bytes; above it
\* files are deleted oldest access first until usage is at or below
\* 0.8 * max_size_bytes, so that no file is deleted while a file with an
\* older access time survives, and none once the target is reached.
C19_OldestFirstUntilTarget ==
    CleanupRan
        => /\ KeepsAllBelowLimit
           /\ DeletesInAtimeOrder
           /\ StopsAtTarget
           /\ \A d \in SeqToSet(call.out.deleted), f \in SeqToSet(call.out.after) :
                  ~(f.atime < d.atime)

\* C19 amended: a surviving file with an older access time than a deleted
\* one is a file whose deletion failed.
C19_OldestFirstAmongDeletable ==
    CleanupRan
        => /\ KeepsAllBelowLimit
           /\ DeletesInAtimeOrder
           /\ StopsAtTarget
           /\ \A d \in SeqToSet(call.out.deleted), f \in SeqToSet(call.out.after) :
                  f.atime < d.atime => f.name \in call.fails

\* the oldest file could not be deleted, a newer one was, and a file newer
\* still was kept because the target was reached
C19_Witness ==
    /\ CleanupRan /\ OverLimit
    /\ \E d \in SeqToSet(call.out.deleted) :
          /\ \E f \in SeqToSet(call.out.after) : f.atime < d.atime /\ f.name \in call.fails
          /\ \E f \in SeqToSet(call.out.after) : f.atime > d.atime /\ f.name \notin call.fails

\* the PNG files of the shared and the guild directories, each ArtifactSize
DiskUsage == Cardinality(disk) * ArtifactSize

\* C20: after any sequence of cache writes of rendered artifacts, each with
\* the cleanup it triggers, the cached artifacts on disk take at most
\* max_size_bytes.
C20_DiskUsageBounded == DiskUsage <= max_size_bytes

(***************************************************************************)
(* The renderer (core/map_gen.py).  render_base_map is a straight line of  *)
(* milestones; a layer whose shapefile did not load is skipped.  The       *)
(* progress callback is described by how it fails: never ("ok"), at one    *)
(* percentage whenever it is called ("always") or at one percentage only   *)
(* when it is handed a snapshot ("image").                                 *)
(***************************************************************************)
Layers == {"land", "lakes", "rivers", "states", "world"}
MapTypes == {"world", "europe", "default", "proximity", "state_closeup"}
continent_map_types ==
    {"world", "europe", "asia", "africa", "northamerica", "southamerica", "australia"}
WaterColors == {"default", "w1"}
\* the statement of render_base_map that raises, if one does
RenderFaults == {"none", "map_colors", "border_colors", "load"} \cup Layers

NoCallback == [mode |-> "absent", pct |-> 0, scaled |-> FALSE]
OkCallback == [mode |-> "ok", pct |-> 0, scaled |-> FALSE]

\* int(percentage * 0.7) in double arithmetic: 90 * 0.7 is just below 63
Int07(p) == IF p = 90 THEN 62 ELSE (7 * p) \div 10

\* the percentage the caller's callback receives
Seen(cb, p) == IF cb.scaled THEN 10 + Int07(p) ELSE p

Raises(cb, p, img) ==
    /\ cb.mode \in {"image", "always"}
    /\ Seen(cb, p) = cb.pct
    /\ (cb.mode = "always" \/ img)

Cb(p) == [op |-> "cb", pct |-> p, layer |-> "none"]
CbImg(p) == [op |-> "cbimg", pct |-> p, layer |-> "none"]
Draw(l) == [op |-> "draw", pct |-> 0, layer |-> l]
Stmt(s) == [op |-> s, pct |-> 0, layer |-> "none"]

RenderSteps(present, map_type) ==
    <<Cb(5), Stmt("try"), Stmt("map_colors"), Stmt("border_colors"),
      Cb(15), Stmt("load"), Cb(25), Stmt("canvas")>>
    \o (IF "land" \in present THEN <<Cb(40), Draw("land"), CbImg(45)>> ELSE << >>)
    \o (IF "lakes" \in present THEN <<Cb(55), Draw("lakes"), CbImg(60)>> ELSE << >>)
    \o (IF map_type # "world" /\ "rivers" \in present
        THEN <<Cb(70), Draw("rivers")>> ELSE << >>)
    \o (IF map_type \notin continent_map_types /\ "states" \in present
        THEN <<Cb(85), Draw("states")>> ELSE << >>)
    \o (IF "world" \in present THEN <<Cb(95), Draw("world"), CbImg(98)>> ELSE << >>)
    \o <<Cb(100)>>

\* the locals of a run: water is DEFAULT_WATER_COLOR until water_color is bound
RunStart ==
    [calls |-> << >>, cbRaised |-> FALSE, inTry |-> FALSE, water |-> "default", layers |-> {},
     order |-> << >>]

Returned(st) ==
    [raised |-> FALSE, calls |-> st.calls, cbRaised |-> st.cbRaised,
     canvas |-> [fill |-> st.water, layers |-> st.layers], order |-> st.order,
     projector |-> TRUE]

\* an exception: the except clause builds the flat canvas, outside it propagates
Failed(st) ==
    IF st.inTry
    THEN [raised |-> FALSE, calls |-> st.calls, cbRaised |-> st.cbRaised,
          canvas |-> [fill |-> st.water, layers |-> {}], order |-> << >>,
          projector |-> TRUE]
    ELSE [raised |-> TRUE, calls |-> st.calls, cbRaised |-> st.cbRaised,
          canvas |-> [fill |-> "none", layers |-> {}], order |-> << >>,
          projector |-> FALSE]

RECURSIVE Run(_, _, _, _, _, _)
Run(steps, i, st, cb, water, fault) ==
    IF i > Len(steps) THEN Returned(st)
    ELSE LET s == steps[i]
             once == [st EXCEPT !.calls = Append(@, Seen(cb, s.pct))]
             twice == [once EXCEPT !.calls = Append(@, Seen(cb, s.pct)), !.cbRaised = TRUE]
         IN  CASE s.op = "cb" ->
                     IF cb.mode = "absent" THEN Run(steps, i + 1, st, cb, water, fault)
                     ELSE IF Raises(cb, s.pct, FALSE)
                          THEN Failed([once EXCEPT !.cbRaised = TRUE])
                     ELSE Run(steps, i + 1, once, cb, water, fault)
               [] s.op = "cbimg" ->
                     IF cb.mode = "absent" THEN Run(steps, i + 1, st, cb, water, fault)
                     ELSE IF ~Raises(cb, s.pct, TRUE)
                          THEN Run(steps, i + 1, once, cb, water, fault)
                     ELSE IF Raises(cb, s.pct, FALSE) THEN Failed(twice)
                     ELSE Run(steps, i + 1, twice, cb, water, fault)
               [] s.op = "try" ->
                     Run(steps, i + 1, [st EXCEPT !.inTry = TRUE], cb, water, fault)
               [] s.op = "map_colors" ->
                     IF fault = "map_colors" THEN Failed(st)
                     ELSE Run(steps, i + 1, [st EXCEPT !.water = water], cb, water, fault)
               [] s.op = "draw" ->
                     IF fault = s.layer THEN Failed(st)
                     ELSE Run(steps, i + 1,
                              [st EXCEPT !.layers = @ \cup {s.layer},
                                         !.order = Append(@, s.layer)],
                              cb, water, fault)
               [] OTHER ->
                     IF fault = s.op THEN Failed(st)
                     ELSE Run(steps, i + 1, st, cb, water, fault)

\* a variant that serves the milestones in reverse order
render_base_map_Reversed(present, map_type, water, fault, cb) ==
    LET steps == RenderSteps(present, map_type)
    IN  Run([i \in 1..Len(steps) |-> steps[Len(steps) + 1 - i]], 1, RunStart, cb, water, fault)

render_base_map(present, map_type, water, fault, cb) ==
    Run(RenderSteps(present, map_type), 1, RunStart, cb, water, fault)

\* _generate_state_closeup with no cached base map: what its callback receives
StateCloseupSeen(present, water, fault, cb) ==
    IF cb.mode = "absent" THEN << >>
    ELSE IF Raises(cb, 5, FALSE) THEN <<5>>
    ELSE <<5>> \o render_base_map(present, "state_closeup", water, fault, cb).calls

\* generate_proximity_map: what its callback receives; the renderer reports
\* through internal_progress_callback, which scales into 10..80
ProximitySeen(present, water, fault, cb) ==
    LET inner == [cb EXCEPT !.scaled = TRUE]
        r == render_base_map(present, "proximity", water, fault, inner)
        rest == Run(<<Stmt("try"), Cb(85), CbImg(85), CbImg(92), Cb(100)>>, 1,
                    RunStart, cb, water, "none")
    IN  IF cb.mode = "absent" THEN << >>
        ELSE IF Raises(cb, 10, FALSE) THEN <<10>>
        ELSE IF r.raised THEN <<10>> \o r.calls
        ELSE <<10>> \o r.calls \o rest.calls

Milestones == {5, 15, 25, 40, 45, 55, 60, 70, 85, 95, 98, 100}
ProximityMilestones == {10, 85, 92, 100} \cup {10 + Int07(p) : p \in Milestones}

Callbacks(pcts) ==
    {NoCallback, OkCallback}
        \cup [mode : {"image", "always"}, pct : pcts, scaled : {FALSE}]

RenderKinds == {"render", "closeup", "proximity"}

RenderInputs(kind) ==
    [kind : {kind},
     present : SUBSET Layers,
     map_type : CASE kind = "render" -> MapTypes
                  [] kind = "closeup" -> {"state_closeup"}
                  [] kind = "proximity" -> {"proximity"},
     water : WaterColors,
     fault : RenderFaults,
     cb : Callbacks(IF kind = "proximity" THEN ProximityMilestones ELSE Milestones)]

\* the renderer's own view of the callback it was handed
InnerCallback(i) == IF i.kind = "proximity" THEN [i.cb EXCEPT !.scaled = TRUE] ELSE i.cb

SeenBy(i) ==
    CASE i.kind = "render" ->
             render_base_map(i.present, i.map_type, i.water, i.fault, i.cb).calls
      [] i.kind = "closeup" -> StateCloseupSeen(i.present, i.water, i.fault, i.cb)
      [] i.kind = "proximity" -> ProximitySeen(i.present, i.water, i.fault, i.cb)

\* one render per behaviour: the renderer keeps no state between renders
RenderCall ==
    /\ call = NoCall
    /\ \E kind \in RenderKinds :
          \E i \in RenderInputs(kind) :
              call' = [fn |-> "render", in |-> i,
                       out |-> render_base_map(i.present, i.map_type, i.water, i.fault,
                                               InnerCallback(i)),
                       plain |-> render_base_map(i.present, i.map_type, i.water, i.fault,
                                                 NoCallback),
                       seen |-> SeenBy(i)]
    /\ UNCHANGED <<lruVars, storeVars, handler, sched, cleaner>>

NextRender == RenderCall

SpecRender == Init /\ [][NextRender]_vars

Rendered == call.fn = "render"

\* C21: within one render, whatever layers are present and whatever the map
\* kind, the percentages handed to the progress callback never decrease and
\* stay within 0..100.
C21_PercentagesNeverDecrease ==
    Rendered =>
        /\ \A k \in 1..Len(call.seen) : call.seen[k] \in 0..100
        /\ \A k \in 1..(Len(call.seen) - 1) : call.seen[k] <= call.seen[k + 1]

\* a proximity render with every layer present that ran to its last milestone
C21_Witness ==
    /\ Rendered
    /\ call.in.kind = "proximity" /\ call.in.present = Layers
    /\ call.in.cb.mode = "ok" /\ call.in.fault = "none"
    /\ Len(call.seen) = 17
    /\ call.seen[Len(call.seen)] = 100

\* the callback raised at least once during the render
CallbackRaised == call.out.cbRaised

\* the canvas of the same render when nothing fails
CompleteCanvas ==
    render_base_map(call.in.present, call.in.map_type, call.in.water, "none",
                    NoCallback).canvas

\* a statement of render_base_map raised during the render
FaultHit ==
    \/ call.in.fault \in {"map_colors", "border_colors", "load"}
    \/ call.in.fault \in CompleteCanvas.layers

\* C24: when the progress callback raises at a milestone and nothing else
\* fails, render_base_map returns normally with the canvas it returns when
\* no callback is supplied.
C24_CallbackFailureKeepsCanvas ==
    (Rendered /\ call.in.kind = "render" /\ ~FaultHit /\ CallbackRaised)
        => /\ ~call.out.raised
           /\ call.out.canvas = call.plain.canvas

\* C25: render_base_map never raises to its caller; when loading, drawing or
\* progress reporting fails it returns a projector and, unless the failure
\* was a snapshot report that succeeded on its retry, a flat canvas in the
\* configured or the default water colour.
C25_NeverRaises ==
    (Rendered /\ call.in.kind = "render")
        => /\ ~call.out.raised
           /\ call.out.projector
           /\ (FaultHit \/ CallbackRaised)
                  => /\ call.out.canvas.fill \in {call.in.water, "default"}
                     /\ \/ call.out.canvas.layers = {}
                        \/ ~FaultHit /\ call.out.canvas = CompleteCanvas

(***************************************************************************)
(* MapProgressHandler (core/map_progress_handler.py).  update_progress     *)
(* holds _update_lock from its first to its last statement, so the calls   *)
(* of one handler run one after the other; the loop time is read once, at  *)
(* the start of the call.  Time is counted in quarters of a second.        *)
(***************************************************************************)
ProgressPercentages == {5, 45, 100}
ImageBuffers == {NoImage, "i1", "i2"}

\* a throttle that spares no update
Throttled_FinalToo(current_time, last_update, percentage) ==
    current_time - last_update < MinInterval

\* a throttle that drops nothing
Throttled_Never(current_time, last_update, percentage) == FALSE

\* if current_time - self._last_update < 0.5 and percentage < 100: return
Throttled(current_time, last_update, percentage) ==
    current_time - last_update < MinInterval /\ percentage < 100

\* time passes on the event loop
Advance ==
    /\ handler.now < MaxTime
    /\ handler' = [handler EXCEPT !.now = @ + 1]
    /\ UNCHANGED <<lruVars, storeVars, call, sched, cleaner>>

\* whether the edit of the Discord message succeeds makes no difference to
\* the handler: the exception is logged after _last_update was set
update_progress(percentage, image_buffer) ==
    /\ handler.updates < MaxUpdates
    /\ LET current_time == handler.now
           ev == [percentage |-> percentage, image |-> image_buffer, at |-> current_time,
                  since |-> handler._last_update]
       IN  IF Throttled(current_time, handler._last_update, percentage)
           THEN handler' = [handler EXCEPT !.updates = @ + 1,
                                           !.last = ev @@ [emitted |-> FALSE]]
           ELSE handler' =
                    [handler EXCEPT
                        !._last_update = current_time,
                        !._current_image =
                            IF image_buffer # NoImage THEN image_buffer ELSE @,
                        !._current_percentage =
                            IF image_buffer # NoImage THEN percentage ELSE @,
                        !.updates = @ + 1,
                        !.emits = @ + 1,
                        !.last = ev @@ [emitted |-> TRUE]]
    /\ UNCHANGED <<lruVars, storeVars, call, sched, cleaner>>

NextProgress ==
    \/ Advance
    \/ \E percentage \in ProgressPercentages, image_buffer \in ImageBuffers :
          update_progress(percentage, image_buffer)

SpecProgress == Init /\ [][NextProgress]_vars

\* a step that is one call of update_progress
UpdateStep == handler'.updates = handler.updates + 1

\* the fields of the handler the claim calls its state
HandlerState(h) == <<h._last_update, h._current_image, h._current_percentage>>

\* C22: update_progress never drops an update with percentage 100 because of
\* the rate limit, however soon it follows the previous emitted update.
C22_FinalUpdateNeverDropped ==
    [][(UpdateStep /\ handler'.last.percentage = 100)
          => /\ handler'.last.emitted
             /\ handler'._last_update = handler'.last.at]_vars

\* a final update emitted less than 0.5 s after the previous emitted one
C22_Witness ==
    /\ handler.emits >= 2
    /\ handler.last.percentage = 100 /\ handler.last.emitted
    /\ handler.last.at - handler.last.since < MinInterval

\* C23: an update below 100 that is emitted comes at least 0.5 s after the
\* previous emitted update; one that arrives sooner is dropped and leaves
\* the last emit time and the stored snapshot as they were.
C23_EmittedUpdatesAreSpaced ==
    [][(UpdateStep /\ handler'.last.percentage < 100)
          => IF handler'.last.emitted
             THEN handler'.last.at - handler._last_update >= MinInterval
             ELSE /\ handler'.last.at - handler._last_update < MinInterval
                  /\ HandlerState(handler') = HandlerState(handler)]_vars

\* an update with a snapshot arrived too soon after an emitted one that had
\* stored another snapshot, and was dropped
C23_Witness ==
    /\ handler.emits >= 1
    /\ ~handler.last.emitted /\ handler.last.percentage = 45
    /\ handler.last.image = "i2" /\ handler._current_image = "i1"
    /\ handler.last.at - handler.last.since < MinInterval

(***************************************************************************)
(* Render requests with a file system that fails: a write may raise,       *)
(* before or after it touched the file, and a file may be damaged while it *)
(* lies in the cache directory.                                            *)
(***************************************************************************)
IOFaults == [base : WriteOutcomes, final : WriteOutcomes]

Requested(via, io, r) ==
    [fn |-> "request", via |-> via, io |-> io, ret |-> r.ret, wrote |-> r.wrote]

\* JobFinish with the outcome of its two cache writes
JobFinishIO(j, io) ==
    /\ Ready
    /\ jobs[j].pc = "colored"
    /\ LET job == jobs[j]
           pins == IF job.kind = "main" /\ ~job.live THEN job.snap ELSE PinsOf(maps, job.g)
           r == FinishRequest(FinalType(job.kind), BaseType(job.kind), Store, job.g, maps,
                              Raster(job.palette), pins, io)
       IN  /\ SetStore(r.S)
           /\ call' = Requested("job", io, r)
    /\ jobs' = [jobs EXCEPT ![j] = IdleJob]
    /\ UNCHANGED <<handler, sched, cleaner, requests, clock, lastOp, evicted, maps, views, applying, cont>>

\* UpdateMap with the outcome of its cache writes
UpdateMapIO(io) ==
    /\ cont.op = "update_map"
    /\ LET r == _generate_map_image_io(Store, cont.g, maps, io)
       IN  /\ SetStore(r.S)
           /\ call' = Requested("update_map", io, r)
    /\ cont' = NoCont
    /\ UNCHANGED <<handler, sched, cleaner, requests, clock, lastOp, evicted, maps, jobs, views, applying>>

\* a cached file is damaged on disk
CorruptFile(f, kind) ==
    /\ Ready
    /\ Request
    /\ f \in disk
    /\ ~IsCorrupt(f.img)
    /\ disk' = (disk \ {f}) \cup {[f EXCEPT !.img = Corrupt(kind)]}
    /\ UNCHANGED <<auxVars, lruVars, maps, jobs, views, applying, cont>>

\* the process is restarted: the memory tier and the suspended handlers
\* are gone, the files and the saved map data are still there
Restart ==
    /\ Ready
    /\ Request
    /\ memory_cache' = << >>
    /\ lastOp' = NoOp
    /\ evicted' = {}
    /\ jobs' = [j \in JobIds |-> IdleJob]
    /\ views' = [g \in Guilds |-> NoView]
    /\ applying' = [g \in Guilds |-> NotApplying]
    /\ UNCHANGED <<auxVars, clock, maps, disk, cont>>

NextFaults ==
    \/ \E g \in Guilds, j \in JobIds : CreateMap(g, j)
    \/ \E j \in JobIds : JobBegin(j)
    \/ \E j \in JobIds : JobReadColors(j)
    \/ \E j \in JobIds, io \in IOFaults : JobFinishIO(j, io)
    \/ \E g \in Guilds, u \in Users, pos \in Positions : PinChange(g, u, pos)
    \/ \E io \in IOFaults : UpdateMapIO(io)
    \/ \E f \in disk, kind \in CorruptKinds : CorruptFile(f, kind)
    \/ Restart

SpecFaults == Init /\ [][NextFaults]_vars

\* the last request tried to write a cache file and the write failed
WriteFailed ==
    /\ call.fn = "request"
    /\ \/ "base" \in call.wrote /\ call.io.base # "ok"
       \/ "final" \in call.wrote /\ call.io.final # "ok"

\* C26: when writing an artifact to the disk tier fails, cache_item and
\* cache_base_map do not raise and the render request still returns its
\* rendered result.
C26_WriteFailureStillReturns ==
    WriteFailed => /\ call.ret = "drawn"
                   /\ call.wrote \in {{"final"}, {"base", "final"}}

\* the base map write failed, the final map was still written and returned
C26_Witness ==
    /\ WriteFailed
    /\ call.wrote = {"base", "final"}
    /\ call.io.base = "fail" /\ call.io.final = "ok"
    /\ call.ret = "drawn"
    /\ \E f \in disk : IsFinalFile(f) /\ ~IsCorrupt(f.img)
    /\ ~\E f \in disk : IsBaseFile(f)

\* C27: a lookup that finds a corrupt file for its key reports a miss, and
\* the corrupt artifact is not left in the memory tier.
C27_CorruptFileIsMiss ==
    \A g \in Guilds :
        /\ \A type \in {"base_map", "closeup_base_map"} :
              LET key == generate_cache_key(type, g, maps)
                  dir == _get_cache_location(g, maps)
                  r == GetCachedBase(type, Store, g, maps)
              IN  (/\ key \notin CacheKeys(memory_cache)
                   /\ FileExists(disk, dir, key)
                   /\ IsCorrupt(FileAt(disk, dir, key).img))
                      => /\ r.how = "miss"
                         /\ \A i \in 1..Len(r.mem) : ~IsCorrupt(r.mem[i].value)
        /\ \A type \in {"final_map", "closeup"} :
              LET key == generate_cache_key(type, g, maps)
                  dir == _get_cache_location(g, maps)
              IN  (FileExists(disk, dir, key) /\ IsCorrupt(FileAt(disk, dir, key).img))
                      => ~HasCachedItem(type, Store, g, maps)

(***************************************************************************)
(* The memory tier under concurrent tasks.  Every method of LRUCache is    *)
(* "async with self._lock: body".  The body is taken in two halves so that *)
(* the lock, and not the absence of an await inside the body, is what      *)
(* keeps the calls apart.  The time.time() of a call is read when the      *)
(* lock is taken.                                                          *)
(***************************************************************************)
LockKeys == {"k1", "k2", "k3"}
LockValues == {"v1"}
LockOps ==
    [op : {"get", "remove"}, key : LockKeys, value : {"none"}]
        \cup [op : {"set"}, key : LockKeys, value : LockValues]
        \cup [op : {"clear"}, key : {"none"}, value : {"none"}]

\* a lock that admits every caller
CanAcquire_NoLock(l) == TRUE

\* asyncio.Lock.acquire returns at once only when the lock is not held
CanAcquire(l) == l = NoHolder

InBody(task) == task.pc \in {"part1", "part2"}
Started == Len(sched.order) + Cardinality({t \in Tasks : sched.tasks[t].pc = "waiting"})

\* self.cache[key] = ...: an existing key keeps its place
Assign(c, k, e) ==
    IF k \in CacheKeys(c)
    THEN [i \in 1..Len(c) |-> IF c[i].key = k THEN e ELSE c[i]]
    ELSE Append(c, e)

\* a task calls get, set, remove or clear and reaches "async with self._lock"
LockCall(t, o) ==
    /\ sched.tasks[t].pc = "idle"
    /\ Started < MaxCalls
    /\ sched' = [sched EXCEPT !.tasks[t] =
                     [IdleTask EXCEPT !.pc = "waiting", !.op = o.op, !.key = o.key,
                                      !.value = o.value],
                                  !.contended = @ \/ sched._lock # NoHolder]
    /\ UNCHANGED <<lruVars, storeVars, call, handler, cleaner>>

\* __aenter__: the task holds the lock
LockAcquire(t) ==
    /\ sched.tasks[t].pc = "waiting"
    /\ CanAcquire(sched._lock)
    /\ clock < MaxClock
    /\ clock' = clock + 1
    /\ sched' = [sched EXCEPT
                    !._lock = t,
                    !.tasks[t].pc = "part1",
                    !.tasks[t].t = clock,
                    !.order = Append(@, [op |-> sched.tasks[t].op, key |-> sched.tasks[t].key,
                                         value |-> sched.tasks[t].value, t |-> clock])]
    /\ UNCHANGED <<memory_cache, lastOp, evicted, storeVars, call, handler, cleaner>>

\* the first half of the body: the membership test and the statement after it
LockPart1(t) ==
    /\ sched.tasks[t].pc = "part1"
    /\ LET task == sched.tasks[t]
           k == task.key
           found == k \in CacheKeys(memory_cache)
           e == memory_cache[IndexOf(memory_cache, k)]
       IN  /\ memory_cache' =
                  CASE task.op = "get" /\ found -> MoveToEnd(memory_cache, k, e)
                    [] task.op = "set" /\ found ->
                           Assign(memory_cache, k,
                                  [e EXCEPT !.value = task.value, !.atime = task.t,
                                            !.via = "set"])
                    [] task.op = "set" /\ ~found ->
                           Assign(memory_cache, k,
                                  [key |-> k, value |-> task.value, atime |-> task.t,
                                   itime |-> task.t, via |-> "set"])
                    [] OTHER -> memory_cache
           /\ sched' = [sched EXCEPT !.tasks[t].pc = "part2", !.tasks[t].found = found,
                                     !.tasks[t].value =
                                         IF task.op = "get" /\ found THEN e.value ELSE @]
    /\ UNCHANGED <<clock, lastOp, evicted, storeVars, call, handler, cleaner>>

\* the second half of the body, then __aexit__ releases the lock
LockPart2(t) ==
    /\ sched.tasks[t].pc = "part2"
    /\ LET task == sched.tasks[t]
           k == task.key
           there == k \in CacheKeys(memory_cache)
           e == memory_cache[IndexOf(memory_cache, k)]
       IN  memory_cache' =
               CASE task.op = "get" /\ task.found ->
                        Assign(memory_cache, k,
                               IF there THEN [e EXCEPT !.atime = task.t, !.via = "get"]
                               ELSE [key |-> k, value |-> task.value, atime |-> task.t,
                                     itime |-> task.t, via |-> "get"])
                 [] task.op = "set" /\ task.found /\ there -> MoveToEnd(memory_cache, k, e)
                 [] task.op = "set" /\ ~task.found -> EvictWhileOver(memory_cache, max_items)
                 [] task.op = "remove" /\ task.found -> Without(memory_cache, k)
                 [] task.op = "clear" -> << >>
                 [] OTHER -> memory_cache
    /\ sched' = [sched EXCEPT !._lock = NoHolder, !.tasks[t] = IdleTask]
    /\ UNCHANGED <<clock, lastOp, evicted, storeVars, call, handler, cleaner>>

NextLock ==
    \/ \E t \in Tasks, o \in LockOps : LockCall(t, o)
    \/ \E t \in Tasks : LockAcquire(t)
    \/ \E t \in Tasks : LockPart1(t)
    \/ \E t \in Tasks : LockPart2(t)

SpecLock == Init /\ [][NextLock]_vars

\* the calls of a sequence made one after the other on the cache c
RECURSIVE Replay(_, _)
Replay(c, ops) ==
    IF ops = << >> THEN c
    ELSE LET o == Head(ops)
             d == CASE o.op = "get" -> LRUCache_get(c, o.key, o.t)
                    [] o.op = "set" -> LRUCache_set(c, o.key, o.value, o.t)
                    [] o.op = "remove" -> LRUCache_remove(c, o.key)
                    [] o.op = "clear" -> LRUCache_clear(c)
         IN  Replay(d, Tail(ops))

\* C28: whenever no call is inside its body, the contents and the recency
\* order of the memory tier are those of a sequential execution of the
\* calls made so far, namely in the order in which they took the lock.
C28_CallsAreSerialised ==
    (\A t \in Tasks : ~InBody(sched.tasks[t]))
        => memory_cache = Replay(<< >>, sched.order)

\* a task called remove while another held the lock for a get of the same
\* key, and waited; both calls are done now
C28_Witness ==
    /\ \A t \in Tasks : sched.tasks[t].pc = "idle"
    /\ sched.contended
    /\ Len(sched.order) = 3
    /\ sched.order[1].op = "set" /\ sched.order[1].key = "k1"
    /\ sched.order[2].op = "get" /\ sched.order[2].key = "k1"
    /\ sched.order[3].op = "remove" /\ sched.order[3].key = "k1"
    /\ memory_cache = << >>


(***************************************************************************)
(* Render requests that overlap.  Nothing keeps a second request for the   *)
(* same guild and artifact from starting while the first one is suspended  *)
(* in the renderer: both can miss, both render, both write.                *)
(***************************************************************************)
\* the two requests; a new request takes the first slot that is free
RaceJobIds == {1, 2}
FreeSlot(j) == \A k \in RaceJobIds : k < j => jobs[k].pc # "idle"

InitRace ==
    /\ memory_cache = << >>
    /\ clock = 0
    /\ lastOp = NoOp
    /\ evicted = {}
    /\ maps = [g \in Guilds |-> NoMap]
    /\ disk = {}
    /\ jobs = [j \in RaceJobIds |-> IdleJob]
    /\ views = [g \in Guilds |-> NoView]
    /\ applying = [g \in Guilds |-> NotApplying]
    /\ cont = NoCont
    /\ requests = 0
    /\ call = NoCall
    /\ handler = NewHandler
    /\ sched = NewSched
    /\ cleaner = NewCleaner

\* the requests for the same guild and artifact that are inside the renderer
Peers(j) ==
    {k \in DOMAIN jobs \ {j} :
        /\ jobs[k].pc \in {"rendering", "colored"}
        /\ jobs[k].g = jobs[j].g
        /\ jobs[k].kind = jobs[j].kind}

\* request j finished after a request that had j as a peer when it finished
SecondOf(j) ==
    /\ call.fn = "race"
    /\ j \in call.peers
    /\ call.g = jobs[j].g
    /\ call.kind = jobs[j].kind

\* what request j caches when it finishes in the current state
PinsDrawn(j) ==
    IF jobs[j].kind = "main" /\ ~jobs[j].live THEN jobs[j].snap ELSE PinsOf(maps, jobs[j].g)
BaseOutput(j) == Raster(jobs[j].palette)
FinalOutput(j) == [BaseOutput(j) EXCEPT !.marks = @ \cup PinMarks(PinsDrawn(j))]

\* JobFinish, remembering who finished and who was still rendering
RaceFinish(j) ==
    /\ Ready
    /\ jobs[j].pc = "colored"
    /\ LET job == jobs[j]
           r == FinishRequest(FinalType(job.kind), BaseType(job.kind), Store, job.g, maps,
                              BaseOutput(j), PinsDrawn(j), NoFault)
       IN  /\ SetStore(r.S)
           /\ call' = [fn |-> "race", j |-> j, g |-> job.g, kind |-> job.kind,
                       ret |-> r.ret, peers |-> Peers(j), second |-> SecondOf(j),
                       out |-> FinalOutput(j),
                       lost |-> IF SecondOf(j) THEN call.out ELSE FinalOutput(j),
                       firstRet |-> IF SecondOf(j) THEN call.ret ELSE r.ret]
    /\ jobs' = [jobs EXCEPT ![j] = IdleJob]
    /\ UNCHANGED <<handler, sched, cleaner, requests, clock, lastOp, evicted, maps, views, applying, cont>>

NextRace ==
    \/ \E g \in Guilds, j \in RaceJobIds : FreeSlot(j) /\ CreateMap(g, j)
    \/ \E g \in Guilds, j \in RaceJobIds : FreeSlot(j) /\ CloseupRequest(g, j)
    \/ \E j \in RaceJobIds : JobBegin(j)
    \/ \E j \in RaceJobIds : JobReadColors(j)
    \/ \E j \in RaceJobIds : RaceFinish(j)
    \/ \E g \in Guilds, u \in Users, pos \in Positions : PinChange(g, u, pos)
    \/ UpdateMap
    \/ \E g \in Guilds, c \in ColorChoices : ColorPreview(g, c)
    \/ \E g \in Guilds : ApplyColors(g)
    \/ \E g \in Guilds, ok \in BOOLEAN : ApplyColorsFinish(g, ok)
    \/ \E g \in Guilds : DeleteMap(g)

SpecRace == InitRace /\ [][NextRace]_vars

FilesAt(d, dir, key) == {f \in d : f.dir = dir /\ f.key = key}
EntriesAt(c, key) == {i \in 1..Len(c) : c[i].key = key}

\* the two tiers hold one artifact under each key request j wrote: its output
HoldsOutputOf(j, mem, d) ==
    LET g == jobs[j].g
        dir == _get_cache_location(g, maps)
        fkey == generate_cache_key(FinalType(jobs[j].kind), g, maps)
        bkey == generate_cache_key(BaseType(jobs[j].kind), g, maps)
        cachesBase == jobs[j].kind # "main" \/ MapsTruthy(maps)
    IN  /\ Cardinality(FilesAt(d, dir, fkey)) = 1
        /\ \A f \in FilesAt(d, dir, fkey) : f.img = FinalOutput(j)
        /\ cachesBase =>
              /\ Cardinality(FilesAt(d, dir, bkey)) = 1
              /\ \A f \in FilesAt(d, dir, bkey) : f.img = BaseOutput(j)
              /\ Cardinality(EntriesAt(mem, bkey)) = 1
              /\ \A i \in EntriesAt(mem, bkey) : mem[i].value.palette = jobs[j].palette

\* C29: when two requests for the same guild and artifact were both inside
\* the renderer (both missed the cache), both finish by returning their
\* image, and once the second has finished each key it wrote holds exactly
\* one artifact, the output of that second request.
C29_LastWriterWins ==
    [][\A j \in RaceJobIds :
          (jobs[j].pc = "colored" /\ jobs'[j].pc = "idle" /\ SecondOf(j))
              => /\ call.ret = "drawn"
                 /\ call'.ret = "drawn"
                 /\ HoldsOutputOf(j, memory_cache', disk')]_vars

\* two close-up requests overlapped, a pin was moved between their ends,
\* and the file under the key shows the later request's picture
C29_Witness ==
    /\ call.fn = "race"
    /\ call.second
    /\ call.kind = "closeup"
    /\ call.ret = "drawn" /\ call.firstRet = "drawn"
    /\ call.out # call.lost
    /\ \E f \in disk : IsCloseupFile(f) /\ f.img = call.out
    /\ ~\E f \in disk : IsCloseupFile(f) /\ f.img = call.lost


(***************************************************************************)
(* The periodic cleanup task (CacheManager._periodic_cleanup) and its      *)
(* cancellation by stop_cleanup_task.  cleaner.pc is the await the task is *)
(* suspended at: "created" (not run yet), "sleeping" (sleep(3600)),        *)
(* "woken" (that sleep is over, the task is scheduled to run),             *)
(* "error_wait" (sleep(300) in the except clause), "error_woken", or       *)
(* "deleting" while cleanup_if_needed unlinks the files of cleaner.todo;   *)
(* "cancelled" when the task has ended.                                    *)
(***************************************************************************)
\* the exceptions a handler of the given class catches
Catches_BaseException(handler_class, exc) == TRUE

\* except Exception: asyncio.CancelledError derives from BaseException
Catches(handler_class, exc) == handler_class = "Exception" /\ exc # "CancelledError"

\* the awaits at which the task gives up control; get_cache_size, the lock
\* nobody else holds and the unlink loop never do
SuspensionPoints == {"created", "sleeping", "woken", "error_wait", "error_woken"}
Suspended(c) == c.pc \in SuspensionPoints

\* other code runs only while the task is suspended or does not exist
LoopFree(c) == Suspended(c) \/ c.pc \in {"none", "cancelled"}

FileNames == 1..MaxFiles

\* the files stored while the task runs: small or large, old or recent
StoredSizes == {1, MaxFileSize}
StoredAtimes == {1, MaxAtime}

CleanerVars(c) ==
    /\ cleaner' = c
    /\ UNCHANGED <<lruVars, storeVars, call, handler, sched>>

\* setup_hook: start_cleanup_task creates the task
StartCleanupTask ==
    /\ cleaner.pc = "none"
    /\ cleaner.stop = "idle"
    /\ CleanerVars([cleaner EXCEPT !.pc = "created"])

\* a file is stored in the managed directory by some other handler
AddFile(size, atime) ==
    /\ LoopFree(cleaner)
    /\ cleaner.added < MaxFiles
    /\ CleanerVars([cleaner EXCEPT
            !.files = Append(@, [name |-> cleaner.added + 1, size |-> size, atime |-> atime]),
            !.added = @ + 1])

\* the task runs for the first time, up to await asyncio.sleep(3600)
TaskFirstStep ==
    /\ cleaner.pc = "created"
    /\ ~cleaner.must_cancel
    /\ CleanerVars([cleaner EXCEPT !.pc = "sleeping"])

\* the timer of the sleep the task waits in fires
TimerFires ==
    /\ cleaner.pc \in {"sleeping", "error_wait"}
    /\ ~cleaner.must_cancel
    /\ cleaner.passes < MaxPasses
    /\ CleanerVars([cleaner EXCEPT !.pc = IF @ = "sleeping" THEN "woken" ELSE "error_woken"])

\* the task resumes after sleep(3600): cleanup_if_needed lists the files
\* and decides what to delete
TaskWake(fails) ==
    /\ cleaner.pc = "woken"
    /\ ~cleaner.must_cancel
    /\ CleanerVars([cleaner EXCEPT !.pc = "deleting",
                                   !.todo = cleanup_if_needed(cleaner.files, fails).deleted])

\* file_path.unlink() of the next file
DeleteStep ==
    /\ cleaner.pc = "deleting"
    /\ cleaner.todo # << >>
    /\ CleanerVars([cleaner EXCEPT
            !.files = SelectSeq(@, LAMBDA f : f # Head(cleaner.todo)),
            !.todo = Tail(@)])

\* the pass is over and the statistics are logged; an exception there is
\* caught by the loop's except clause, which sleeps for 300 s
PassEnd(exc) ==
    /\ cleaner.pc = "deleting"
    /\ cleaner.todo = << >>
    /\ CleanerVars([cleaner EXCEPT
            !.pc = IF exc # "none" /\ Catches("Exception", exc) THEN "error_wait" ELSE "sleeping",
            !.passes = @ + 1])

\* the task resumes after sleep(300) and goes round the loop
TaskErrWake ==
    /\ cleaner.pc = "error_woken"
    /\ ~cleaner.must_cancel
    /\ CleanerVars([cleaner EXCEPT !.pc = "sleeping"])

\* the task is resumed with CancelledError thrown at its await: inside the
\* try block the except clause is consulted, elsewhere the task ends
TaskThrow ==
    /\ cleaner.must_cancel
    /\ cleaner.pc \in SuspensionPoints \cup {"deleting"}
    /\ CleanerVars([cleaner EXCEPT
            !.must_cancel = FALSE,
            !.pc = IF cleaner.pc \in {"sleeping", "woken"}
                      /\ Catches("Exception", "CancelledError")
                   THEN "error_wait" ELSE "cancelled"])

\* close: stop_cleanup_task cancels the task and awaits it
StopCall ==
    /\ cleaner.stop = "idle"
    /\ LoopFree(cleaner)
    /\ CleanerVars(IF cleaner.pc \in {"none", "cancelled"}
                   THEN [cleaner EXCEPT !.stop = "returned", !.at = cleaner.pc]
                   ELSE [cleaner EXCEPT !.stop = "awaiting", !.at = cleaner.pc,
                                        !.must_cancel = TRUE])

\* await self.cleanup_task raises CancelledError, which is passed over
StopReturn ==
    /\ cleaner.stop = "awaiting"
    /\ cleaner.pc = "cancelled"
    /\ CleanerVars([cleaner EXCEPT !.stop = "returned"])

TaskStep ==
    \/ TaskFirstStep
    \/ \E fails \in SUBSET FileNames : TaskWake(fails)
    \/ DeleteStep
    \/ \E exc \in {"none", "OSError"} : PassEnd(exc)
    \/ TaskErrWake
    \/ TaskThrow

NextCleaner ==
    \/ StartCleanupTask
    \/ \E size \in StoredSizes, atime \in StoredAtimes : AddFile(size, atime)
    \/ TimerFires
    \/ TaskStep
    \/ StopCall
    \/ StopReturn

SpecCleaner == Init /\ [][NextCleaner]_vars

\* the event loop runs every callback it has scheduled: a task that can
\* take a step takes it, and so does the caller of stop_cleanup_task
SpecCleanerLive == SpecCleaner /\ WF_vars(TaskStep) /\ WF_vars(StopReturn)

StopAwaits == cleaner.stop = "awaiting"
TaskEnded == cleaner.pc = "cancelled"

\* C30: once stop_cleanup_task has cancelled the task, the task ends and
\* stop_cleanup_task returns, wherever the task was waiting; and a task
\* that has ended left no deletion of a cleanup pass undone.
C30_StopTerminatesTask ==
    /\ StopAwaits ~> (TaskEnded /\ cleaner.stop = "returned")
    /\ [](TaskEnded => cleaner.todo = << >>)

\* stopped when the hourly sleep was over and the directory was above its
\* limit: the task ended without deleting anything
C30_Witness ==
    /\ cleaner.stop = "returned"
    /\ TaskEnded
    /\ cleaner.at = "woken"
    /\ cleaner.passes = 1
    /\ get_cache_size(cleaner.files) > max_size_bytes

(***************************************************************************)
(* MapGenerator.group_overlapping_pins (core/map_gen.py) as a function of  *)
(* the projected pin positions, in the order of the pins dict, and of      *)
(* base_pin_size.  A pin is named by its place in that order.              *)
(***************************************************************************)
Coords == (0..MaxCoord) \X (0..1)
PinSizes == {1, 2}
PinLists(n) == [1..n -> Coords]

\* dx*dx + dy*dy
Dist2(p, q) == (p[1] - q[1]) * (p[1] - q[1]) + (p[2] - q[2]) * (p[2] - q[2])

\* an overlap test that counts pins that just touch
Overlaps_Inclusive(p, q, base_pin_size) ==
    Dist2(p, q) <= (base_pin_size * 2) * (base_pin_size * 2)

\* math.sqrt(dx*dx + dy*dy) < overlap_threshold, on integers
Overlaps(p, q, base_pin_size) ==
    Dist2(p, q) < (base_pin_size * 2) * (base_pin_size * 2)

\* an inner loop that skips only the seed itself
Skipped_SelfOnly(j, i, used_pins) == j = i

\* if j in used_pins or j == i: continue
Skipped(j, i, used_pins) == j \in used_pins \/ j = i

RECURSIVE SumCoord(_, _, _)
SumCoord(pos, members, c) ==
    IF members = << >> THEN 0
    ELSE pos[Head(members)][c] + SumCoord(pos, Tail(members), c)

\* the group seeded by pin i: the pins not yet used that overlap pin i, in
\* order; its position is the seed's, or the integer centroid of a group
NewGroup(pos, i, used_pins, base_pin_size) ==
    LET others == SelectSeq([j \in 1..Len(pos) |-> j],
                            LAMBDA j : /\ ~Skipped(j, i, used_pins)
                                       /\ Overlaps(pos[i], pos[j], base_pin_size))
        members == <<i>> \o others
        count == Len(members)
    IN  [position |-> IF count > 1
                      THEN <<SumCoord(pos, members, 1) \div count,
                             SumCoord(pos, members, 2) \div count>>
                      ELSE pos[i],
         count |-> count,
         pins |-> members]

RECURSIVE GroupLoop(_, _, _, _, _)
GroupLoop(pos, i, used_pins, groups, base_pin_size) ==
    IF i > Len(pos) THEN groups
    ELSE IF i \in used_pins THEN GroupLoop(pos, i + 1, used_pins, groups, base_pin_size)
    ELSE LET g == NewGroup(pos, i, used_pins, base_pin_size)
         IN  GroupLoop(pos, i + 1, used_pins \cup {g.pins[k] : k \in 1..Len(g.pins)},
                       Append(groups, g), base_pin_size)

group_overlapping_pins(pos, base_pin_size) == GroupLoop(pos, 1, {}, << >>, base_pin_size)

PinCall ==
    /\ call = NoCall
    /\ \E n \in 0..MaxPins, size \in PinSizes :
          \E pos \in PinLists(n) :
              call' = [fn |-> "pins", pos |-> pos, size |-> size,
                       groups |-> group_overlapping_pins(pos, size)]
    /\ UNCHANGED <<lruVars, storeVars, handler, sched, cleaner>>

NextPins == PinCall

SpecPins == Init /\ [][NextPins]_vars

Grouped == call.fn = "pins"
PinIds == 1..Len(call.pos)
Members(g) == {g.pins[k] : k \in 1..Len(g.pins)}
GroupsOf(i) == {k \in 1..Len(call.groups) : i \in Members(call.groups[k])}
SameGroup(i, j) == \E k \in 1..Len(call.groups) : {i, j} \subseteq Members(call.groups[k])
Threshold2 == (2 * call.size) * (2 * call.size)
Near(i, j) == Dist2(call.pos[i], call.pos[j]) < Threshold2
Seed(g) == g.pins[1]

\* C31 as stated: any two pins closer than 2 x base_pin_size are in the same
\* cluster, and a pin at least that far from every other pin forms a
\* cluster of size 1.
C31_NearPinsShareCluster ==
    Grouped =>
        /\ \A i \in PinIds, j \in PinIds : Near(i, j) => SameGroup(i, j)
        /\ \A i \in PinIds :
              (\A j \in PinIds \ {i} : ~Near(i, j))
                  => \E k \in GroupsOf(i) : call.groups[k].count = 1

\* C31 amended: the clusters are built greedily around their first pin.
\* Every member of a cluster is closer than 2 x base_pin_size to the
\* cluster's first pin; a pin that close to the first pin of a cluster is in
\* that cluster or in one formed earlier; two pins alone form one cluster
\* of count 2 at their integer centroid when they are that close; and a pin
\* at least that far from every other pin forms a cluster of size 1.
C31_GreedyClusters ==
    Grouped =>
        /\ \A k \in 1..Len(call.groups) :
              LET g == call.groups[k]
              IN  /\ \A j \in Members(g) \ {Seed(g)} : Near(Seed(g), j)
                  /\ \A j \in PinIds :
                        Near(Seed(g), j) =>
                            \E m \in 1..k : j \in Members(call.groups[m])
        /\ (Len(call.pos) = 2 /\ Near(1, 2))
              => /\ Len(call.groups) = 1
                 /\ call.groups[1].count = 2
                 /\ call.groups[1].position =
                        <<(call.pos[1][1] + call.pos[2][1]) \div 2,
                          (call.pos[1][2] + call.pos[2][2]) \div 2>>
        /\ \A i \in PinIds :
              (\A j \in PinIds \ {i} : ~Near(i, j))
                  => \E k \in GroupsOf(i) : call.groups[k].count = 1

\* three pins in a row: the middle one joins the first, the third is close
\* to the middle one and still on its own
C31_Witness ==
    /\ Grouped
    /\ Len(call.pos) = 3
    /\ Near(1, 2) /\ Near(2, 3) /\ ~Near(1, 3)
    /\ Len(call.groups) = 2
    /\ call.groups[1].pins = <<1, 2>>
    /\ call.groups[2].pins = <<3>>

\* C39: the clusters partition the pins: every pin is a member of exactly
\* one cluster, each count is the number of members of its cluster, and the
\* counts add up to the number of pins.
RECURSIVE SumCounts(_)
SumCounts(groups) == IF groups = << >> THEN 0 ELSE Head(groups).count + SumCounts(Tail(groups))

C39_ClustersPartitionPins ==
    Grouped =>
        /\ \A i \in PinIds : Cardinality(GroupsOf(i)) = 1
        /\ \A k \in 1..Len(call.groups) :
              /\ call.groups[k].count = Len(call.groups[k].pins)
              /\ call.groups[k].count = Cardinality(Members(call.groups[k]))
              /\ Members(call.groups[k]) \subseteq PinIds
        /\ SumCounts(call.groups) = Len(call.pos)

\* three pins, the middle one close to both others: it is counted once
C39_Witness ==
    /\ Grouped
    /\ Len(call.pos) = 3
    /\ Near(1, 2) /\ Near(2, 3) /\ ~Near(1, 3)
    /\ SumCounts(call.groups) = 3
    /\ GroupsOf(2) = {1}

(***************************************************************************)
(* MapGenerator.get_pin_settings (core/map_gen.py): the pin size.  The     *)
(* stored value is whatever json.load produced for settings.pins.size: an  *)
(* int, a float (finite, counted in halves; nan; inf; -inf), a string (of  *)
(* an integer literal or not), a bool, None or a list, or no key at all.   *)
(***************************************************************************)
DEFAULT_PIN_SIZE == 16
MinPinSize == 8
MaxPinSize == 32

RawTypes == {"absent", "int", "float", "float_nan", "float_inf", "float_neginf",
             "str_int", "str_other", "bool", "None", "list"}

RawValues(t) ==
    CASE t \in {"int", "str_int"} -> {[t |-> t, v |-> v] : v \in (0 - MaxRaw)..MaxRaw}
      [] t = "float" -> {[t |-> t, v |-> v] : v \in (0 - 2 * MaxRaw)..(2 * MaxRaw)}
      [] t = "bool" -> {[t |-> t, v |-> v] : v \in {0, 1}}
      [] OTHER -> {[t |-> t, v |-> 0]}

\* int(x) of Python: the value, or the exception it raises
Returns(v) == [exc |-> "none", v |-> v]
Throws(e) == [exc |-> e, v |-> 0]
int(raw) ==
    CASE raw.t \in {"int", "str_int", "bool"} -> Returns(raw.v)
      [] raw.t = "float" ->
            \* truncation toward zero
            Returns(IF raw.v >= 0 THEN raw.v \div 2 ELSE 0 - ((0 - raw.v) \div 2))
      [] raw.t = "float_nan" -> Throws("ValueError")
      [] raw.t \in {"float_inf", "float_neginf"} -> Throws("OverflowError")
      [] raw.t = "str_other" -> Throws("ValueError")
      [] OTHER -> Throws("TypeError")

Min(a, b) == IF a < b THEN a ELSE b
Max(a, b) == IF a > b THEN a ELSE b

\* pins.get('size', DEFAULT_PIN_SIZE); try: int, max(8, min(32, .));
\* except (ValueError, TypeError): DEFAULT_PIN_SIZE
get_pin_size(raw) ==
    LET pin_size_raw == IF raw.t = "absent" THEN [t |-> "int", v |-> DEFAULT_PIN_SIZE] ELSE raw
        r == int(pin_size_raw)
    IN  CASE r.exc = "none" -> Returns(Max(MinPinSize, Min(MaxPinSize, r.v)))
          [] r.exc \in {"ValueError", "TypeError"} -> Returns(DEFAULT_PIN_SIZE)
          [] OTHER -> Throws(r.exc)

PinSizeCall ==
    /\ call = NoCall
    /\ \E t \in RawTypes :
          \E raw \in RawValues(t) :
              call' = [fn |-> "pin_size", raw |-> raw, out |-> get_pin_size(raw)]
    /\ UNCHANGED <<lruVars, storeVars, handler, sched, cleaner>>

NextPinSize == PinSizeCall

SpecPinSize == Init /\ [][NextPinSize]_vars

\* the stored value is a number below 8 / above 32
IsNumber(raw) == raw.t \in {"int", "float", "float_inf", "float_neginf"}
Below(raw) ==
    \/ raw.t = "int" /\ raw.v < MinPinSize
    \/ raw.t = "float" /\ raw.v < 2 * MinPinSize
    \/ raw.t = "float_neginf"
Above(raw) ==
    \/ raw.t = "int" /\ raw.v > MaxPinSize
    \/ raw.t = "float" /\ raw.v > 2 * MaxPinSize
    \/ raw.t = "float_inf"
Unconvertible(raw) == raw.t \in {"float_nan", "str_other", "None", "list"}

\* C32: get_pin_settings never raises and returns a size within [8, 32];
\* a number below 8 gives 8, a number above 32 gives 32, and a value that
\* cannot be converted to an integer gives the default 16.
C32_PinSizeClamped ==
    call.fn = "pin_size" =>
        /\ call.out.exc = "none"
        /\ call.out.v \in MinPinSize..MaxPinSize
        /\ Below(call.raw) => call.out.v = MinPinSize
        /\ Above(call.raw) => call.out.v = MaxPinSize
        /\ Unconvertible(call.raw) => call.out.v = DEFAULT_PIN_SIZE

(***************************************************************************)
(* MapConfig.calculate_geographic_scale_factor (core/map_config.py) in     *)
(* fixed-point arithmetic: degrees in hundredths, cosines in 1/10000,      *)
(* ratios and scale factors in thousandths; every operation rounds down.   *)
(***************************************************************************)
\* MAP_REGIONS[region]["bounds"] = [[min_lat, min_lng], [max_lat, max_lng]]
MAP_REGIONS ==
    [world |-> <<<<-6500, -18000>>, <<8500, 18000>>>>,
     europe |-> <<<<3450, -2500>>, <<7300, 4000>>>>,
     germany |-> <<<<4727, 587>>, <<5506, 1504>>>>,
     asia |-> <<<<-800, 2400>>, <<8200, 18000>>>>,
     africa |-> <<<<-4000, -2000>>, <<4000, 6000>>>>,
     australia |-> <<<<-4500, 11000>>, <<-1000, 15500>>>>,
     france |-> <<<<4100, -550>>, <<5150, 950>>>>,
     luxembourg |-> <<<<4900, 550>>, <<5050, 650>>>>,
     malta |-> <<<<3570, 1400>>, <<3620, 1480>>>>]

RegionNames == DOMAIN MAP_REGIONS \cup {"atlantis"}
GridLats == {-6000, -3000, 0, 3000, 6000}
GridLngs == {-18000, -9000, 0, 9000, 18000}
NoBounds == << >>
CustomBounds ==
    {<<a, b, c, d>> : a \in GridLats, b \in GridLngs, c \in GridLats, d \in GridLngs}

\* math.cos(math.radians((min_lat + max_lat) / 2)), from the sum of the two
\* latitudes; the table holds the latitudes the model uses
Cos(lat_sum) ==
    LET s == IF lat_sum < 0 THEN 0 - lat_sum ELSE lat_sum
    IN  CASE s = 0 -> 10000
          [] s = 2000 -> 9848
          [] s = 3000 -> 9659
          [] s = 5500 -> 8870
          [] s = 6000 -> 8660
          [] s = 7190 -> 8095
          [] s = 7400 -> 7986
          [] s = 9000 -> 7071
          [] s = 9250 -> 6915
          [] s = 9950 -> 6461
          [] s = 10233 -> 6270
          [] s = 10750 -> 5913

\* germany_lat_range * germany_lng_range * cos(center): lines 344-352
germany_area ==
    LET b == MAP_REGIONS["germany"]
    IN  (b[2][1] - b[1][1]) * (((b[2][2] - b[1][2]) * Cos(b[1][1] + b[2][1])) \div 10000)

\* a target area without the correction of the longitude range
target_area_Uncorrected(target_bounds) ==
    (target_bounds[2][1] - target_bounds[1][1]) * (target_bounds[2][2] - target_bounds[1][2])

\* target_lat_range * target_lng_range * cos(center): lines 364-371
target_area(target_bounds) ==
    (target_bounds[2][1] - target_bounds[1][1])
        * (((target_bounds[2][2] - target_bounds[1][2])
              * Cos(target_bounds[1][1] + target_bounds[2][1])) \div 10000)

\* target_area / germany_area, in thousandths
area_ratio(t, g) == (t \div g) * 1000 + ((t % g) * 1000) \div g

\* math.log10 of a ratio above 1, in thousandths, to the tenth below
Log10(r) ==
    LET d == IF r >= 1000000 THEN 3 ELSE IF r >= 100000 THEN 2 ELSE IF r >= 10000 THEN 1 ELSE 0
        m == CASE d = 3 -> r \div 1000 [] d = 2 -> r \div 100 [] d = 1 -> r \div 10 [] OTHER -> r
        tenths == Cardinality({x \in {1259, 1585, 1995, 2512, 3162, 3981, 5012, 6310, 7943} :
                                  m >= x})
    IN  d * 1000 + tenths * 100

calculate_geographic_scale_factor(region, custom_bounds) ==
    IF custom_bounds = NoBounds /\ region \notin DOMAIN MAP_REGIONS
    THEN 1000
    ELSE LET target_bounds ==
                 IF custom_bounds # NoBounds
                 THEN <<<<custom_bounds[1], custom_bounds[2]>>,
                        <<custom_bounds[3], custom_bounds[4]>>>>
                 ELSE MAP_REGIONS[region]
             ratio == area_ratio(target_area(target_bounds), germany_area)
             scale_factor == IF ratio > 1000 THEN 1000 + Log10(ratio) \div 2 ELSE ratio
         IN  Max(300, Min(scale_factor, 8000))

\* get_line_widths passes the region, or the bounds of a proximity map
ScaleCall ==
    /\ call = NoCall
    /\ \/ \E region \in RegionNames :
             call' = [fn |-> "scale", region |-> region, custom_bounds |-> NoBounds,
                      out |-> calculate_geographic_scale_factor(region, NoBounds)]
       \/ \E cb \in CustomBounds :
             /\ cb[1] < cb[3] /\ cb[2] < cb[4]
             /\ call' = [fn |-> "scale", region |-> "None", custom_bounds |-> cb,
                         out |-> calculate_geographic_scale_factor("None", cb)]
    /\ UNCHANGED <<lruVars, storeVars, handler, sched, cleaner>>

NextScale == ScaleCall

SpecScale == Init /\ [][NextScale]_vars

\* C33: calculate_geographic_scale_factor returns exactly 1.0 for the
\* reference region germany.
C33_ReferenceRegionIsOne ==
    (call.fn = "scale" /\ call.region = "germany" /\ call.custom_bounds = NoBounds)
        => call.out = 1000

\* the factor of the reference region was computed (through the ratio of
\* the two areas, not the fallback for unknown regions)
C33_Witness ==
    /\ call.fn = "scale"
    /\ call.region = "germany"
    /\ call.custom_bounds = NoBounds
    /\ call.out = 1000
    /\ "germany" \in DOMAIN MAP_REGIONS
    /\ area_ratio(target_area(MAP_REGIONS["germany"]), germany_area) = 1000

(***************************************************************************)
(* MapGenerator.render_geopandas_map (core/map_gen.py): the region decides *)
(* the map type handed to render_base_map; any exception, of the bounds    *)
(* lookup or out of render_base_map, leads to a second render with unit    *)
(* bounds, map type "default" and no callback.                             *)
(***************************************************************************)
GeoRegions == continent_map_types \cup {"germany", "france"}

\* "world" if region == "world" else "europe" if region == "europe" else "default"
MapTypeOf(region) ==
    IF region = "world" THEN "world" ELSE IF region = "europe" THEN "europe" ELSE "default"

render_geopandas_map(region, present, water, fault, bounds_fault, cb) ==
    LET first == render_base_map(present, MapTypeOf(region), water, fault, cb)
    IN  IF bounds_fault \/ first.raised
        THEN render_base_map(present, "default", water, fault, NoCallback)
        ELSE first

GeoCall ==
    /\ call = NoCall
    /\ \E region \in GeoRegions, present \in SUBSET Layers, water \in WaterColors,
          fault \in RenderFaults, bounds_fault \in BOOLEAN, cb \in {NoCallback, OkCallback} :
          call' = [fn |-> "geo", region |-> region, present |-> present, fault |-> fault,
                   bounds_fault |-> bounds_fault,
                   out |-> render_geopandas_map(region, present, water, fault, bounds_fault, cb)]
    /\ UNCHANGED <<lruVars, storeVars, handler, sched, cleaner>>

NextGeo == GeoCall

SpecGeo == Init /\ [][NextGeo]_vars

\* C34: a render of a continent- or world-scale region started through
\* render_geopandas_map draws no state/province borders, and when it draws
\* the country borders it draws them last.
C34_NoStateBordersOnContinents ==
    (call.fn = "geo" /\ call.region \in continent_map_types) =>
        /\ "states" \notin call.out.canvas.layers
        /\ "world" \in call.out.canvas.layers =>
              call.out.order[Len(call.out.order)] = "world"

(***************************************************************************)
(* Cached artifacts against the settings and pins their keys are made of.  *)
(***************************************************************************)
\* the colour and border settings a base-map key was computed from: the
\* digest is the last part of the key
PaletteOfKey(k) == IF k[Len(k)] = "default" THEN "default" ELSE k[Len(k)]

\* C35: every base_map artifact stored under a key, in the memory tier or on
\* disk, was rendered with exactly the colour and border settings hashed
\* into that key, also when the owner's settings changed while the render
\* was in flight.
C35_BaseMapMatchesItsKey ==
    /\ \A f \in disk : IsBaseFile(f) => f.img.palette = PaletteOfKey(f.key)
    /\ \A i \in 1..Len(memory_cache) :
          IsPrefix(GlobBase, memory_cache[i].key)
              => memory_cache[i].value.palette = PaletteOfKey(memory_cache[i].key)


\* the pin positions and the colours a final-map key was computed from:
\* "final", "map", region, one part per user, then the settings digest
KeyPins(k) == {k[3 + i] : i \in 1..Len(UserSeq)} \ {NoPin}
KeyPalette(k) ==
    LET digest == SubSeq(k, 4 + Len(UserSeq), Len(k))
    IN  IF digest = <<"default">> \/ digest[2] = NoSetting THEN "default" ELSE digest[2]

FinalMatchesKey(f) == f.img.marks = KeyPins(f.key) /\ f.img.palette = KeyPalette(f.key)

\* C36: every final_map artifact stored under a key shows exactly the pins
\* and was drawn with exactly the visual settings hashed into that key, also
\* when a previewed image is applied as the final map after the pins
\* changed between the preview and the apply.
C36_FinalMapMatchesItsKey ==
    \A f \in disk : IsFinalFile(f) => FinalMatchesKey(f)


(***************************************************************************)
(* Render requests whose renderer may fail.  render_base_map answers an    *)
(* exception inside its try block with a flat canvas of the water colour;  *)
(* the request tests the returned image for truth and caches it.           *)
(***************************************************************************)
\* the flat canvas of the except clause, as a raster of the store
Flat == [palette |-> "flat", marks |-> {}, pre |-> FALSE]

\* the shapefiles are installed; the state layer may be missing
LoadedLayers == {Layers, Layers \ {"states"}}

\* a callback that raises at the first progress report
RaisesAtStart == [mode |-> "always", pct |-> 5, scaled |-> FALSE]

\* the image a render hands to the cache: a canvas without any layer is the
\* flat one (land is always loaded), any other is terrain in its fill colour
ToRaster(out) == IF out.canvas.layers = {} THEN Flat ELSE Raster(out.canvas.fill)

\* what the renderer returns to _generate_map_image / _generate_state_closeup
RenderResult(kind, present, water, fault, cb) ==
    IF kind = "main"
    THEN render_geopandas_map("germany", present, water, fault, FALSE, cb)
    ELSE render_base_map(present, "state_closeup", water, fault, cb)

\* the renderer returned or raised: "if base_map:" holds for every Image, so
\* whatever was returned is cached as the base map and drawn on; an
\* exception ends the request in its own except clause with None
JobRendered(j, present, fault, cb) ==
    /\ Ready
    /\ jobs[j].pc = "colored"
    /\ LET job == jobs[j]
           out == RenderResult(job.kind, present, job.palette, fault, cb)
           pins == IF job.kind = "main" /\ ~job.live THEN job.snap ELSE PinsOf(maps, job.g)
           r == FinishRequest(FinalType(job.kind), BaseType(job.kind), Store, job.g, maps,
                              ToRaster(out), pins, NoFault)
       IN  IF out.raised
           THEN /\ UNCHANGED <<memory_cache, disk>>
                /\ call' = [fn |-> "rendered", fault |-> fault, raised |-> TRUE, ret |-> "None"]
           ELSE /\ SetStore(r.S)
                /\ call' = [fn |-> "rendered", fault |-> fault, raised |-> FALSE, ret |-> r.ret]
    /\ jobs' = [jobs EXCEPT ![j] = IdleJob]
    /\ UNCHANGED <<handler, sched, cleaner, requests, clock, lastOp, evicted, maps, views,
                   applying, cont>>

NextFallback ==
    \/ \E g \in Guilds, j \in JobIds : CreateMap(g, j)
    \/ \E g \in Guilds, j \in JobIds : CloseupRequest(g, j)
    \/ \E j \in JobIds : JobBegin(j)
    \/ \E j \in JobIds : JobReadColors(j)
    \/ \E j \in JobIds, present \in LoadedLayers, fault \in RenderFaults,
          cb \in {OkCallback, RaisesAtStart} : JobRendered(j, present, fault, cb)

SpecFallback == Init /\ [][NextFallback]_vars

\* C37: no base_map or closeup_base_map entry of the memory tier or the
\* disk tier holds the flat water-coloured canvas the renderer returns
\* after a failure.
C37_NoFallbackCanvasCached ==
    /\ \A f \in disk : IsBaseArtifact(f) => f.img # Flat
    /\ \A i \in 1..Len(memory_cache) :
          IsBaseKey(memory_cache[i].key) => memory_cache[i].value.palette # Flat.palette


\* C38: the invalidation of a pin-only change (add, move, remove) by one
\* owner deletes no final_map artifact that serves a different owner: an
\* owner whose final map was a cache hit before the change still hits.
C38_PinChangeKeepsOtherOwnersFinalMap ==
    [][(cont.op = "none" /\ cont'.op = "update_map" /\ cont'.why = "pin")
       => \A h \in Guilds \ {cont'.g} :
             (maps[h].exists /\ HasCachedItem("final_map", Store, h, maps))
                => HasCachedItem("final_map", [mem |-> memory_cache', disk |-> disk'],
                                 h, maps')]_vars


(***************************************************************************)
(* start_cleanup_task and stop_cleanup_task called again and again, one    *)
(* call after the other (setup_hook, close, and any further caller).       *)
(***************************************************************************)
\* a start_cleanup_task that never looks at the task it holds
NoLiveTask_Unchecked(c) == TRUE

\* self.cleanup_task is None or self.cleanup_task.done()
NoLiveTask(c) == c.pc \in {"none", "cancelled"}

TaskCalls(c) == c.starts + c.stops

\* start_cleanup_task: create_task unless a task is held that is not done;
\* a task whose reference is overwritten while it runs keeps running
StartCall ==
    /\ cleaner.stop # "awaiting"
    /\ LoopFree(cleaner)
    /\ TaskCalls(cleaner) < MaxTaskCalls
    /\ CleanerVars(IF NoLiveTask(cleaner)
                   THEN [cleaner EXCEPT
                            !.starts = @ + 1, !.created = @ + 1,
                            !.orphans = IF cleaner.pc \in {"none", "cancelled"} THEN @ ELSE @ + 1,
                            !.pc = "created", !.must_cancel = FALSE, !.todo = << >>]
                   ELSE [cleaner EXCEPT !.starts = @ + 1])

\* stop_cleanup_task: cancel and await the task if one is held and not done
StopAgain ==
    /\ cleaner.stop # "awaiting"
    /\ LoopFree(cleaner)
    /\ TaskCalls(cleaner) < MaxTaskCalls
    /\ CleanerVars(IF cleaner.pc \in {"none", "cancelled"}
                   THEN [cleaner EXCEPT !.stops = @ + 1, !.stop = "returned", !.at = cleaner.pc]
                   ELSE [cleaner EXCEPT !.stops = @ + 1, !.stop = "awaiting",
                                        !.at = cleaner.pc, !.must_cancel = TRUE])

NextLifecycle ==
    \/ StartCall
    \/ StopAgain
    \/ \E atime \in StoredAtimes : AddFile(MaxFileSize, atime)
    \/ StopReturn
    \/ TimerFires
    \/ TaskStep

SpecLifecycle == Init /\ [][NextLifecycle]_vars

\* the periodic cleanup tasks that exist and have not ended
RunningTasks(c) == (IF c.pc \in {"none", "cancelled"} THEN 0 ELSE 1) + c.orphans

\* C40: after any sequence of start_cleanup_task and stop_cleanup_task calls
\* at most one periodic cleanup task is running; start_cleanup_task while a
\* task is running creates no task, and stop_cleanup_task with no running
\* task changes nothing.
C40_AtMostOneCleanupTask ==
    /\ [](RunningTasks(cleaner) <= 1)
    /\ [][(cleaner'.starts # cleaner.starts /\ RunningTasks(cleaner) > 0)
             => (cleaner'.created = cleaner.created /\ cleaner'.pc = cleaner.pc)]_vars
    /\ [][(cleaner'.stops # cleaner.stops /\ RunningTasks(cleaner) = 0)
             => (/\ cleaner'.pc = cleaner.pc
                 /\ cleaner'.must_cancel = cleaner.must_cancel
                 /\ cleaner'.created = cleaner.created
                 /\ cleaner'.stop = "returned")]_vars

\* a task was started, start was called again while it ran, it was stopped,
\* a second task was started after that and stop was called once more after
\* that task had been stopped
C40_Witness ==
    /\ cleaner.starts = 3
    /\ cleaner.created = 2
    /\ cleaner.stops = 3
    /\ cleaner.at = "cancelled"
    /\ cleaner.stop = "returned"

=============================================================================
